---------------------------- MODULE Spec2Model ----------------------------
(***************************************************************************)
(* Model of the legacy DFU engine of odrive (legacy_dfu.py, dfuse/         *)
(* DfuDevice.py, firmware.py): the sector planner, the DFU transport and   *)
(* the write_firmware session, run against a DFU bootloader device.        *)
(***************************************************************************)
EXTENDS Integers, Sequences, FiniteSets, TLC

(***************************************************************************)
(* Program constants                                                       *)
(***************************************************************************)
MAX_TRANSFER_SIZE == 2048
PollTimeoutLimit == 10000
FlashBase == 134217728      \* 0x08000000
OtpBase == 536836096        \* 0x1fff7800
OtpLockBase == 536836608    \* 0x1fff7A00
OtpMagic == 254             \* 0xfe
EraseValue == 255           \* 0xff
SnippetLen == 16
CmdSetAddressPointer == 33  \* 0x21
CmdErase == 65              \* 0x41
BlockOffset == 2

(***************************************************************************)
(* Bounds of the model                                                     *)
(***************************************************************************)
MaxBusy == 1        \* extra dfuDNBUSY / dfuMANIFEST-SYNC reports of a slow device
MaxFaultAt == 5     \* a fault can hit request 0..MaxFaultAt of an operation
RtMaxByte == 1      \* write/read on their own: buffers over the bytes 0..RtMaxByte
RtMaxTransfer == 6  \* write/read on their own: max transfer sizes 1..RtMaxTransfer
PlanMaxSectorLen == 3   \* planner on its own: the longest sector
PlanMaxSectionLen == 3  \* planner on its own: the longest section

None == "None"
NoExc == "none"

(***************************************************************************)
(* Generic helpers                                                         *)
(***************************************************************************)
Min(a, b) == IF a < b THEN a ELSE b
Max(a, b) == IF a > b THEN a ELSE b

\* Python slice s[a:b] of a 1-indexed TLA+ sequence (a, b are 0-based offsets)
Slice(s, a, b) ==
    LET lo == Min(Max(a, 0), Len(s))
        hi == Min(Max(b, lo), Len(s))
    IN  SubSeq(s, lo + 1, hi)

Repeat(v, n) == [i \in 1..n |-> v]

RECURSIVE Flatten(_)
Flatten(ss) == IF ss = <<>> THEN <<>> ELSE Head(ss) \o Flatten(Tail(ss))

\* a faulty variant of gcd: the smaller of the two
gcd_min(a, b) == Min(a, b)

\* math.gcd
RECURSIVE gcd(_, _)
gcd(a, b) == IF b = 0 THEN a ELSE gcd(b, a % b)

\* a wrong encoding: the most significant byte first
_address_to_4bytes_msb(a) ==
    << (a \div 16777216) % 256, (a \div 65536) % 256, (a \div 256) % 256, a % 256 >>

\* DfuDevice.py:63  (a >> k) % 256, LSB first
_address_to_4bytes(a) ==
    << a % 256, (a \div 256) % 256, (a \div 65536) % 256, (a \div 16777216) % 256 >>

HwVersion(p, v, r) == << p, v, r >>


(***************************************************************************)
(* The bootloader device (environment): the DFU state machine of the       *)
(* STM32 bootloader (AN3156) as described in the DfuTransport design.      *)
(* A device record: hw (its static descriptor), state, status, ptr (the    *)
(* address pointer), mem (programmed bytes; anything else reads erased),   *)
(* alt (the selected alternate setting), pend (the command accepted by the *)
(* last DNLOAD), busy, present, n (requests received in the current host   *)
(* operation), fault (the misbehaviour injected into that operation) and   *)
(* elapsed (the milliseconds the host has slept on the device's request).  *)
(***************************************************************************)
NoPend == [op |-> "none", addr |-> 0, data |-> <<>>]
NoFault == [at |-> 0, kind |-> "none"]
FaultKinds == {"error", "timeout", "longpoll", "disconnect"}

\* Sector list declared by one memory interface string:
\* '@label/base/repeat*size<unit><mode>,...'   (DfuDevice.py:106-128)
SIZE_MULTIPLIERS(unit) ==
    CASE unit = " " -> 1 [] unit = "K" -> 1024 [] unit = "M" -> 1024 * 1024

\* a wrong parser that starts every sector-spec at the base address again
RECURSIVE LayoutSectors_rebased(_, _)
LayoutSectors_rebased(layout, addr) ==
    IF layout = <<>> THEN <<>>
    ELSE LET spec == Head(layout)
             size == spec.size * SIZE_MULTIPLIERS(spec.unit)
         IN  [i \in 1..spec.repeat |->
                 [addr |-> addr + (i - 1) * size, len |-> size, mode |-> spec.mode]]
             \o LayoutSectors_rebased(Tail(layout), addr)

RECURSIVE LayoutSectors(_, _)
LayoutSectors(layout, addr) ==
    IF layout = <<>> THEN <<>>
    ELSE LET spec == Head(layout)
             size == spec.size * SIZE_MULTIPLIERS(spec.unit)
         IN  [i \in 1..spec.repeat |->
                 [addr |-> addr + (i - 1) * size, len |-> size, mode |-> spec.mode]]
             \o LayoutSectors(Tail(layout), addr + spec.repeat * size)

MemRead(mem, a) == IF a \in DOMAIN mem THEN mem[a] ELSE EraseValue

DevSectorAt(d, a) ==
    LET intfs == { i \in 1..Len(d.hw.interfaces) : d.hw.interfaces[i].name = d.alt }
        secs == IF intfs = {} THEN <<>>
                ELSE LET intf == d.hw.interfaces[CHOOSE i \in intfs : TRUE]
                     IN  LayoutSectors(intf.layout, intf.baseaddr)
    IN  { secs[i] : i \in { j \in 1..Len(secs) :
                              secs[j].addr <= a /\ a < secs[j].addr + secs[j].len } }

\* what the device stores for byte b at address a (a bad cell stores another value)
DevStoreByte(d, a, b) == IF a \in d.hw.badCells THEN (b + 1) % 256 ELSE b

\* the effect of the accepted command, applied when the device turns busy
DevExecute(d) ==
    CASE d.pend.op = "setaddr" -> [d EXCEPT !.ptr = d.pend.addr]
      [] d.pend.op = "erase" ->
            LET gone == UNION { s.addr .. (s.addr + s.len - 1) : s \in DevSectorAt(d, d.pend.addr) }
            IN  [d EXCEPT !.mem = [a \in (DOMAIN d.mem) \ gone |-> d.mem[a]]]
      [] d.pend.op = "write" ->
            LET new == d.pend.addr .. (d.pend.addr + Len(d.pend.data) - 1)
            IN  [d EXCEPT !.mem = [a \in (DOMAIN d.mem) \cup new |->
                     IF a \in new THEN DevStoreByte(d, a, d.pend.data[a - d.pend.addr + 1])
                     ELSE d.mem[a]]]
      [] OTHER -> d

DevReply(d, resp) == [dev |-> d, resp |-> resp, err |-> FALSE, why |-> "ok"]
\* an invalid request stalls the control pipe (a USBError on the host)
DevStall(d) ==
    [dev |-> [d EXCEPT !.state = "DFU_ERROR", !.status = "ERROR_STALLEDPKT", !.pend = NoPend],
     resp |-> None, err |-> TRUE, why |-> "stall"]
\* the device has left the bus: the transfer fails (a USBError on the host)
DevGone(d) == [dev |-> [d EXCEPT !.present = FALSE], resp |-> None, err |-> TRUE, why |-> "gone"]

DevStatusReply(d, timeout) ==
    DevReply(d, [status |-> d.status, state |-> d.state, timeout |-> timeout, text |-> d.status])

DevGetStatus(d, timeout) ==
    CASE d.state = "DFU_DOWNLOAD_SYNC" ->
            DevStatusReply([DevExecute(d) EXCEPT !.state = "DFU_DOWNLOAD_BUSY", !.pend = NoPend], timeout)
      [] d.state = "DFU_DOWNLOAD_BUSY" ->
            IF d.busy > 0 THEN DevStatusReply([d EXCEPT !.busy = @ - 1], timeout)
            ELSE DevStatusReply([d EXCEPT !.state = "DFU_DOWNLOAD_IDLE"], timeout)
      [] d.state = "DFU_MANIFEST_SYNC" ->
            IF d.busy > 0 THEN DevStatusReply([d EXCEPT !.busy = @ - 1], timeout)
            ELSE IF d.hw.exit_disconnects THEN DevGone([d EXCEPT !.state = "DFU_MANIFEST"])
            ELSE DevStatusReply([d EXCEPT !.state = "DFU_MANIFEST"], timeout)
      [] OTHER -> DevStatusReply(d, timeout)

DevDnload(d, rq) ==
    IF d.state \notin {"DFU_IDLE", "DFU_DOWNLOAD_IDLE"} THEN DevStall(d)
    ELSE IF Len(rq.data) = 0 THEN
        IF d.state = "DFU_DOWNLOAD_IDLE"
        THEN DevReply([d EXCEPT !.state = "DFU_MANIFEST_SYNC", !.busy = d.hw.slow,
                                !.pend = [NoPend EXCEPT !.op = "leave"]], 0)
        ELSE DevStall(d)
    ELSE IF rq.value = 0 THEN
        LET a == IF Len(rq.data) = 5
                 THEN rq.data[2] + rq.data[3] * 256 + rq.data[4] * 65536 + rq.data[5] * 16777216
                 ELSE 0
            op == CASE Len(rq.data) = 5 /\ rq.data[1] = CmdSetAddressPointer -> "setaddr"
                    [] Len(rq.data) = 5 /\ rq.data[1] = CmdErase -> "erase"
                    [] OTHER -> "none"
        IN  IF op = "none" THEN DevStall(d)
            ELSE DevReply([d EXCEPT !.state = "DFU_DOWNLOAD_SYNC", !.busy = d.hw.slow,
                                    !.pend = [op |-> op, addr |-> a, data |-> <<>>]], Len(rq.data))
    ELSE IF rq.value < BlockOffset THEN DevStall(d)
    ELSE DevReply([d EXCEPT !.state = "DFU_DOWNLOAD_SYNC", !.busy = d.hw.slow,
                            !.pend = [op |-> "write",
                                      addr |-> d.ptr + (rq.value - BlockOffset) * Len(rq.data),
                                      data |-> rq.data]], Len(rq.data))

DevUpload(d, rq) ==
    IF d.state \notin {"DFU_IDLE", "DFU_UPLOAD_IDLE"} \/ rq.value < BlockOffset THEN DevStall(d)
    ELSE DevReply([d EXCEPT !.state = "DFU_UPLOAD_IDLE"],
                  [i \in 1..rq.size |->
                      MemRead(d.mem, d.ptr + (rq.value - BlockOffset) * rq.size + i - 1)])

\* the device as it receives its next request: a planned "error" fault has
\* put it into dfuERROR by then
DevArrive(d0) ==
    LET d1 == [d0 EXCEPT !.n = @ + 1]
    IN  IF d0.fault.kind = "error" /\ d0.fault.at = d0.n
        THEN [d1 EXCEPT !.state = "DFU_ERROR", !.status = "ERROR_UNKNOWN", !.pend = NoPend]
        ELSE d1

\* one control request, with the fault planned for this request (if any)
DevHandle(d0, rq) ==
    LET hit(k) == d0.fault.kind = k /\ d0.fault.at = d0.n
        d == DevArrive(d0)
        timeout == IF hit("timeout") THEN PollTimeoutLimit + 1
                   ELSE IF hit("longpoll") THEN PollTimeoutLimit
                   ELSE d.hw.poll_ms
    IN  IF ~d.present \/ hit("disconnect") THEN DevGone(d)
        ELSE CASE rq.req = "GETSTATUS" -> DevGetStatus(d, timeout)
               [] rq.req = "GETSTATE" -> DevReply(d, d.state)
               [] rq.req = "DNLOAD" -> DevDnload(d, rq)
               [] rq.req = "UPLOAD" -> DevUpload(d, rq)
               [] rq.req = "ABORT" ->
                     IF d.state = "DFU_ERROR" THEN DevStall(d)
                     ELSE DevReply([d EXCEPT !.state = "DFU_IDLE", !.pend = NoPend], None)
               [] rq.req = "CLRSTATUS" ->
                     IF d.state = "DFU_ERROR"
                     THEN DevReply([d EXCEPT !.state = "DFU_IDLE", !.status = "OK"], None)
                     ELSE DevStall(d)
               [] OTHER -> DevStall(d)

(***************************************************************************)
(* DfuTransport: dfuse/DfuDevice.py.  Every method takes and returns a     *)
(* world w = [self, dev, log, exc, err, ret, ph]: the host object, the     *)
(* device, the requests sent so far, the pending Python exception (NoExc   *)
(* when none), its payload, the return value and the caller's phase tag.   *)
(* A method called with an exception pending does nothing (propagation).   *)
(* Apply(F, v) is F(v) with v evaluated once (statement sequencing).       *)
(***************************************************************************)
NoErr == [text |-> "", status |-> "", state |-> ""]
NoBoard == <<>>

Apply(F(_), v) == CHOOSE r \in { F(x) : x \in {v} } : TRUE

Raise(w, e, info) == [w EXCEPT !.exc = e, !.err = info, !.ret = None]
Msg(text) == [NoErr EXCEPT !.text = text]

\* dict lookup by name in the ordered list of memories
HasMemory(memories, name) == \E i \in 1..Len(memories) : memories[i].name = name
GetMemory(memories, name) ==
    memories[CHOOSE i \in 1..Len(memories) :
                memories[i].name = name
                /\ \A j \in (i + 1)..Len(memories) : memories[j].name # name]

\* DfuDevice.py:137-140
_control_msg(w0, rq) ==
    Apply(LAMBDA w :
        IF w.exc # NoExc THEN w
        ELSE IF w.self._memory = None THEN Raise(w, "Exception", Msg("no memory selected"))
        ELSE Apply(LAMBDA r :
                Apply(LAMBDA sent :
                        IF r.err THEN Raise(sent, "USBError", NoErr)
                        ELSE [sent EXCEPT !.ret = r.resp],
                    [w EXCEPT !.dev = r.dev,
                              !.log = Append(@, [req |-> rq.req, value |-> rq.value,
                                                 data |-> rq.data, size |-> rq.size,
                                                 was |-> DevArrive(w.dev).state,
                                                 st |-> r.dev.state, why |-> r.why,
                                                 poll |-> IF rq.req = "GETSTATUS" /\ ~r.err
                                                          THEN r.resp.timeout ELSE 0,
                                                 ph |-> w.ph])]),
             DevHandle(w.dev, rq)),
      w0)

_dnload(w, blockNum, data) ==
    _control_msg(w, [req |-> "DNLOAD", value |-> blockNum, data |-> data, size |-> Len(data)])

_upload(w, blockNum, size) ==
    _control_msg(w, [req |-> "UPLOAD", value |-> blockNum, data |-> <<>>, size |-> size])

\* a faulty variant of _get_status: the poll interval is not checked
_get_status_unchecked(w) ==
    Apply(LAMBDA r :
        IF r.exc # NoExc THEN r
        ELSE [r EXCEPT !.dev.elapsed = @ + r.ret.timeout],
      _control_msg(w, [req |-> "GETSTATUS", value |-> 0, data |-> <<>>, size |-> 6]))

\* DfuDevice.py:171-186 (time.sleep adds the poll interval to the time elapsed)
_get_status(w) ==
    Apply(LAMBDA r :
        IF r.exc # NoExc THEN r
        ELSE IF r.ret.timeout > PollTimeoutLimit
        THEN Raise(r, "Exception", Msg("Device requested an unreasonable timeout"))
        ELSE [r EXCEPT !.dev.elapsed = @ + r.ret.timeout],
      _control_msg(w, [req |-> "GETSTATUS", value |-> 0, data |-> <<>>, size |-> 6]))

_get_state(w) ==
    _control_msg(w, [req |-> "GETSTATE", value |-> 0, data |-> <<>>, size |-> 1])

\* a wrong clear_status that reads the state and leaves the error standing
clear_status_never(w) == _get_state(w)

\* DfuDevice.py:188-190
clear_status(w) ==
    Apply(LAMBDA r :
        IF r.exc # NoExc THEN r
        ELSE IF r.ret = "DFU_ERROR"
        THEN _control_msg(r, [req |-> "CLRSTATUS", value |-> 0, data |-> <<>>, size |-> 0])
        ELSE r,
      _get_state(w))

\* a faulty variant of _abort: no request is sent
_abort_none(w) == w

_abort(w) == _control_msg(w, [req |-> "ABORT", value |-> 0, data |-> <<>>, size |-> 0])

_read(w, block, size) == _upload(w, block + BlockOffset, size)

\* a faulty variant of _write: the block number goes out as it is
_write_unshifted(w, block, data) == _dnload(w, block, data)

_write(w, block, data) == _dnload(w, block + BlockOffset, data)

\* a faulty variant of _expect_state: one poll, and a busy state is as good as a
\* target state
_expect_state_once(w, busy_states, target_states, error_text) ==
    Apply(LAMBDA r :
        IF r.exc # NoExc THEN r
        ELSE IF r.ret.state \in target_states \cup busy_states THEN r
        ELSE Raise(r, "DfuError",
                   [text |-> error_text, status |-> r.ret.status, state |-> r.ret.state]),
      _get_status(w))

\* DfuDevice.py:229-235
RECURSIVE _expect_state(_, _, _, _)
_expect_state(w, busy_states, target_states, error_text) ==
    Apply(LAMBDA r :
        IF r.exc # NoExc THEN r
        ELSE IF r.ret.state \in target_states THEN r
        ELSE IF r.ret.state \notin busy_states
        THEN Raise(r, "DfuError",
                   [text |-> error_text, status |-> r.ret.status, state |-> r.ret.state])
        ELSE _expect_state(r, busy_states, target_states, error_text),
      _get_status(w))

\* a wrong round of _expect_state: a busy state ends the loop with an error
_expect_state_round_impatient(w, busy_states, target_states, error_text) ==
    Apply(LAMBDA r :
        IF r.exc # NoExc THEN [world |-> r, again |-> FALSE]
        ELSE IF r.ret.state \in target_states THEN [world |-> r, again |-> FALSE]
        ELSE [world |-> Raise(r, "DfuError", [text |-> error_text, status |-> r.ret.status,
                                              state |-> r.ret.state]),
              again |-> FALSE],
      _get_status(w))

\* DfuDevice.py:230-235, one round of the while loop: again tells whether the
\* loop goes round once more
_expect_state_round(w, busy_states, target_states, error_text) ==
    Apply(LAMBDA r :
        IF r.exc # NoExc THEN [world |-> r, again |-> FALSE]
        ELSE IF r.ret.state \in target_states THEN [world |-> r, again |-> FALSE]
        ELSE IF r.ret.state \notin busy_states
        THEN [world |-> Raise(r, "DfuError", [text |-> error_text, status |-> r.ret.status,
                                              state |-> r.ret.state]),
              again |-> FALSE]
        ELSE [world |-> r, again |-> TRUE],
      _get_status(w))

_set_address(w, addr) ==
    _expect_state(_dnload(w, 0, <<CmdSetAddressPointer>> \o _address_to_4bytes(addr)),
                  {"DFU_DOWNLOAD_BUSY"}, {"DFU_DOWNLOAD_IDLE"}, "Failed to set address")

_erase(w, addr) ==
    _expect_state(_dnload(w, 0, <<CmdErase>> \o _address_to_4bytes(addr)),
                  {"DFU_DOWNLOAD_BUSY"}, {"DFU_DOWNLOAD_IDLE"}, "Failed to erase sector")

_leave(w) == _dnload(w, 0, <<>>)

\* a faulty variant of erase_sector: the state gate is left out
erase_sector_ungated(w, sector) == _erase(w, sector.addr)

\* DfuDevice.py:237-239
erase_sector(w, sector) ==
    _erase(_expect_state(w, {}, {"DFU_IDLE", "DFU_DOWNLOAD_IDLE"}, "Cannot erase sector"),
           sector.addr)

\* a faulty variant of block_of: every block carries the head of the buffer
block_of_head(data, blocknum, transfer_size) == Slice(data, 0, transfer_size)

\* DfuDevice.py:253: the bytes block blocknum carries
block_of(data, blocknum, transfer_size) ==
    Slice(data, blocknum * transfer_size, (blocknum + 1) * transfer_size)

\* DfuDevice.py:252-259: the loop of write_sector, from block blocknum on
RECURSIVE write_blocks(_, _, _, _, _)
write_blocks(w0, sector, data, transfer_size, blocknum) ==
    Apply(LAMBDA w :
        IF w.exc # NoExc \/ blocknum >= sector.len \div transfer_size THEN w
        ELSE Apply(LAMBDA block :
                Apply(LAMBDA wr :
                        write_blocks(
                            _expect_state(
                                IF wr.exc = NoExc /\ wr.ret # Len(block)
                                THEN Raise(wr, "AssertionError", NoErr) ELSE wr,
                                {"DFU_DOWNLOAD_BUSY"}, {"DFU_DOWNLOAD_IDLE"},
                                "Failed to write sector"),
                            sector, data, transfer_size, blocknum + 1),
                    _write(w, blocknum, block)),
             block_of(data, blocknum, transfer_size)),
      w0)

\* DfuDevice.py:241-259
write_sector(w, sector, data) ==
    Apply(LAMBDA b :
        Apply(LAMBDA d :
                IF d.exc # NoExc THEN d
                ELSE write_blocks(d, sector, data,
                                  gcd(sector.len, d.self._max_transfer_size), 0),
            _set_address(
                IF b.exc = NoExc /\ b.ret.state \notin {"DFU_IDLE", "DFU_DOWNLOAD_IDLE"}
                THEN Raise(b, "DfuError", [text |-> "Cannot write sector.",
                                           status |-> b.ret.status, state |-> b.ret.state])
                ELSE b,
                sector.addr)),
      _get_status(_expect_state(w, {}, {"DFU_IDLE", "DFU_DOWNLOAD_IDLE"},
                                "Cannot write sector")))

\* DfuDevice.py:275-279: the loop of read_sector, from block blocknum on; data is
\* what was read so far
RECURSIVE read_blocks(_, _, _, _, _)
read_blocks(w0, sector, data, transfer_size, blocknum) ==
    Apply(LAMBDA w :
        IF w.exc # NoExc THEN w
        ELSE IF blocknum >= sector.len \div transfer_size THEN [w EXCEPT !.ret = data]
        ELSE Apply(LAMBDA rd :
                IF rd.exc # NoExc THEN rd
                ELSE IF Len(rd.ret) # transfer_size THEN Raise(rd, "AssertionError", NoErr)
                ELSE read_blocks(rd, sector, data \o rd.ret, transfer_size, blocknum + 1),
             _read(w, blocknum, transfer_size)),
      w0)

\* a wrong read_sector that returns after the last upload, without the abort
read_sector_no_abort(w, sector) ==
    Apply(LAMBDA b :
        IF b.exc # NoExc THEN b
        ELSE read_blocks(b, sector, <<>>, gcd(sector.len, b.self._max_transfer_size), 0),
      _abort(_set_address(
                _expect_state(w, {}, {"DFU_IDLE", "DFU_DOWNLOAD_IDLE"}, "Cannot read sector."),
                sector.addr)))

\* DfuDevice.py:261-282
read_sector(w, sector) ==
    Apply(LAMBDA b :
        IF b.exc # NoExc THEN b
        ELSE Apply(LAMBDA c :
                Apply(LAMBDA d : IF d.exc # NoExc THEN d ELSE [d EXCEPT !.ret = c.ret],
                      _abort(c)),
             read_blocks(b, sector, <<>>, gcd(sector.len, b.self._max_transfer_size), 0)),
      _abort(_set_address(
                _expect_state(w, {}, {"DFU_IDLE", "DFU_DOWNLOAD_IDLE"}, "Cannot read sector."),
                sector.addr)))

\* DfuDevice.py:284-296
jump_to_application(w, address) ==
    Apply(LAMBDA a :
        IF a.exc # NoExc THEN a
        ELSE Apply(LAMBDA b :
                IF b.exc = "USBError" THEN [b EXCEPT !.exc = NoExc, !.ret = None] ELSE b,
             _expect_state(a, {"DFU_MANIFEST_SYNC"}, {"DFU_MANIFEST"},
                           "Failed to exit DFU mode.")),
      _leave(_set_address(w, address)))

(***************************************************************************)
(* FirmwareImage: firmware.py.  An ELF file is a record of segments        *)
(* [p_type, p_vaddr, p_paddr, p_filesz, p_memsz] and sections              *)
(* [name, sh_addr, sh_size, data].                                         *)
(***************************************************************************)
\* pyelftools Segment.section_in_segment: the section lies in the segment's
\* virtual address range
section_in_segment(segment, section) ==
    /\ section.sh_addr >= segment.p_vaddr
    /\ section.sh_addr + section.sh_size <= segment.p_vaddr + segment.p_memsz

\* firmware.py:56-71, one (segment, section) pair: <<>> or one flash section
flash_section(segment, section) ==
    LET segment_addr == segment.p_paddr
        segment_size == segment.p_filesz
        addr0 == section.sh_addr - segment.p_vaddr + segment_addr
        size0 == section.sh_size
        size1 == IF addr0 < segment_addr THEN size0 - (segment_addr - addr0) ELSE size0
        addr1 == IF addr0 < segment_addr THEN segment_addr ELSE addr0
        size2 == IF addr1 + size1 > segment_addr + segment_size
                 THEN segment_addr + segment_size - addr1 ELSE size1
    IN  IF size2 <= 0 THEN <<>>
        ELSE << [name |-> section.name, addr |-> addr1, content |-> section.data] >>

get_flash_sections(file) ==
    Flatten([i \in 1..Len(file.segments) |->
        IF file.segments[i].p_type # "PT_LOAD" THEN <<>>
        ELSE Flatten([j \in 1..Len(file.sections) |->
                IF section_in_segment(file.segments[i], file.sections[j])
                THEN flash_section(file.segments[i], file.sections[j])
                ELSE <<>>])])

\* firmware.py:73-82 (-1 stands for the IndexError of a missing section)
get_reset_address(file) ==
    LET isr == { j \in 1..Len(file.sections) : file.sections[j].name = ".isr_vector" }
    IN  IF isr = {} THEN -1
        ELSE file.sections[CHOOSE j \in isr : \A k \in isr : j <= k].sh_addr

(***************************************************************************)
(* SectorPlanner: legacy_dfu.py _populate_sectors                          *)
(***************************************************************************)
\* a faulty variant of sector_fill: the buffer starts out zeroed
sector_fill_zero(len) == Repeat(0, len)

\* legacy_dfu.py:390
sector_fill(len) == Repeat(EraseValue, len)

\* legacy_dfu.py:395-398: the section is completely before / after the sector
section_before(section_addr, section_len, sector_addr) ==
    section_addr + section_len <= sector_addr

section_after(section_addr, sector_addr, sector_len) ==
    section_addr >= sector_addr + sector_len

\* a faulty variant of insert_section: the head of a section that starts before
\* the sector is not dropped
insert_section_unpruned(sector_addr, sector_content, section_addr0, section_content0) ==
    LET section_addr == IF section_addr0 < sector_addr THEN sector_addr ELSE section_addr0
        content2 == IF section_addr + Len(section_content0) > sector_addr + Len(sector_content)
                    THEN Slice(section_content0, 0,
                               sector_addr + Len(sector_content) - section_addr)
                    ELSE section_content0
    IN  Slice(sector_content, 0, section_addr - sector_addr)
        \o content2
        \o Slice(sector_content, section_addr - sector_addr + Len(content2), Len(sector_content))

\* a faulty variant of insert_section: the tail of a section that ends after the
\* sector is not dropped
insert_section_uncropped(sector_addr, sector_content, section_addr0, section_content0) ==
    LET pruned == section_addr0 < sector_addr
        content1 == IF pruned
                    THEN Slice(section_content0, sector_addr - section_addr0, Len(section_content0))
                    ELSE section_content0
        section_addr == IF pruned THEN sector_addr ELSE section_addr0
    IN  Slice(sector_content, 0, section_addr - sector_addr)
        \o content1
        \o Slice(sector_content, section_addr - sector_addr + Len(content1), Len(sector_content))

\* legacy_dfu.py:400-408: crop the section to the sector and splice it in
insert_section(sector_addr, sector_content, section_addr0, section_content0) ==
    LET pruned == section_addr0 < sector_addr
        content1 == IF pruned
                    THEN Slice(section_content0, sector_addr - section_addr0, Len(section_content0))
                    ELSE section_content0
        section_addr == IF pruned THEN sector_addr ELSE section_addr0
        content2 == IF section_addr + Len(content1) > sector_addr + Len(sector_content)
                    THEN Slice(content1, 0, sector_addr + Len(sector_content) - section_addr)
                    ELSE content1
    IN  Slice(sector_content, 0, section_addr - sector_addr)
        \o content2
        \o Slice(sector_content, section_addr - sector_addr + Len(content2), Len(sector_content))

\* a faulty variant of populate_sector: the sections are overlaid from the last
\* of the list to the first
RECURSIVE populate_sector_backwards(_, _, _)
populate_sector_backwards(sector, acc, sections) ==
    IF sections = <<>> THEN acc
    ELSE LET section == sections[Len(sections)]
             rest == SubSeq(sections, 1, Len(sections) - 1)
         IN  IF section_before(section.addr, Len(section.content), sector.addr)
                \/ section_after(section.addr, sector.addr, Len(acc.content))
             THEN populate_sector_backwards(sector, acc, rest)
             ELSE populate_sector_backwards(sector,
                     [content |-> insert_section(sector.addr, acc.content,
                                                 section.addr, section.content),
                      touched |-> TRUE],
                     rest)

\* the inner loop over the sections: acc = [content, touched]
RECURSIVE populate_sector(_, _, _)
populate_sector(sector, acc, sections) ==
    IF sections = <<>> THEN acc
    ELSE LET section == Head(sections)
         IN  IF section_before(section.addr, Len(section.content), sector.addr)
                \/ section_after(section.addr, sector.addr, Len(acc.content))
             THEN populate_sector(sector, acc, Tail(sections))
             ELSE populate_sector(sector,
                     [content |-> insert_section(sector.addr, acc.content,
                                                 section.addr, section.content),
                      touched |-> TRUE],
                     Tail(sections))

_populate_sectors(sectors, sections) ==
    Flatten([i \in 1..Len(sectors) |->
        LET r == populate_sector(sectors[i],
                    [content |-> sector_fill(sectors[i].len), touched |-> FALSE], sections)
        IN  IF r.touched THEN << [sector |-> sectors[i], data |-> r.content] >> ELSE <<>>])

\* a faulty variant of _get_first_mismatch_index: no difference is ever found
_get_first_mismatch_index_none(array1, array2) == -1

\* legacy_dfu.py:415-425 (-1 stands for None; the lengths are equal where it is called)
_get_first_mismatch_index(array1, array2) ==
    LET diff == { pos \in 0..(Len(array1) - 1) : array1[pos + 1] # array2[pos + 1] }
    IN  IF diff = {} THEN -1 ELSE CHOOSE pos \in diff : \A q \in diff : pos <= q

(***************************************************************************)
(* DfuDevice.init, select_memory and ODriveInDfuMode.init                  *)
(***************************************************************************)
NewODriveInDfuMode ==
    [_initialized |-> FALSE, board |-> NoBoard, memories |-> <<>>,
     _memory |-> None, _max_transfer_size |-> 0]

\* DfuDevice.py:86-131
DfuDevice_init(w) ==
    IF w.exc # NoExc THEN w
    ELSE LET hw == w.dev.hw
         IN  IF hw.max_transfer_size > MAX_TRANSFER_SIZE THEN Raise(w, "AssertionError", NoErr)
             ELSE IF \E i \in 1..Len(hw.interfaces) : hw.interfaces[i].slashes # 2
             THEN Raise(w, "Exception", Msg("invalid interface name"))
             ELSE [w EXCEPT !.self._max_transfer_size = hw.max_transfer_size,
                            !.self.memories =
                                [i \in 1..Len(hw.interfaces) |->
                                    [name |-> hw.interfaces[i].name,
                                     sectors |-> LayoutSectors(hw.interfaces[i].layout,
                                                               hw.interfaces[i].baseaddr)]]]

\* DfuDevice.py:133-135
select_memory(w, name) ==
    IF w.exc # NoExc THEN w
    ELSE IF ~HasMemory(w.self.memories, name) THEN Raise(w, "KeyError", Msg(name))
    ELSE [w EXCEPT !.self._memory = name, !.dev.alt = name]

SectorsAt(sectors, addr) == SelectSeq(sectors, LAMBDA s : s.addr = addr)

\* utils.py:533-544: the answer that ends the prompt loop, and the index returned
multiple_choice_accepts(answer, n) == answer > 0 /\ answer < n
multiple_choice(answer) == answer - 1

\* legacy_dfu.py:75
choices == << HwVersion(4, 4, 58), HwVersion(5, 2, 0), HwVersion(6, 1, 0), HwVersion(6, 2, 0) >>

\* legacy_dfu.py:43-57: the verbose dump of the OTP sector and its lock bytes
dump_otp(w, otp_sectors) ==
    Apply(LAMBDA a :
        IF a.exc # NoExc THEN a
        ELSE IF SectorsAt(otp_sectors, OtpLockBase) = <<>> THEN Raise(a, "IndexError", NoErr)
        ELSE read_sector(a, Head(SectorsAt(otp_sectors, OtpLockBase))),
      read_sector(clear_status(select_memory(w, "OTP Memory")),
                  Head(SectorsAt(otp_sectors, OtpBase))))

\* a faulty variant of otp_board: the magic byte is not looked at
otp_board_unchecked(otp0) ==
    IF Len(otp0) < 6 THEN <<>>
    ELSE HwVersion(otp0[4], otp0[5], otp0[6])

\* legacy_dfu.py:66-72: the hardware version in the OTP record (<<>> stands for
\* the IndexError of a record too short to index)
otp_board(otp0) ==
    IF Len(otp0) = 0 THEN <<>>
    ELSE LET otp_data == IF otp0[1] = 0 THEN Slice(otp0, 16, Len(otp0)) ELSE otp0
         IN  IF Len(otp_data) = 0 THEN <<>>
             ELSE IF otp_data[1] # OtpMagic THEN HwVersion(3, 0, 0)
             ELSE IF Len(otp_data) < 6 THEN <<>>
             ELSE HwVersion(otp_data[4], otp_data[5], otp_data[6])

\* legacy_dfu.py:59-72
read_otp_board(w, otp_sectors) ==
    Apply(LAMBDA a :
        IF a.exc # NoExc THEN a
        ELSE IF otp_board(a.ret) = <<>> THEN Raise(a, "IndexError", NoErr)
        ELSE [a EXCEPT !.self.board = otp_board(a.ret)],
      read_sector(clear_status(select_memory(w, "OTP Memory")),
                  Head(SectorsAt(otp_sectors, OtpBase))))

\* a faulty variant of ODriveInDfuMode.init: _initialized is not looked at
ODriveInDfuMode_init_again(w, verbose, ask, answer) ==
    IF w.exc # NoExc THEN w
    ELSE Apply(LAMBDA a :
            LET mems == a.self.memories
                is_odrive3 == /\ a.exc = NoExc
                              /\ HasMemory(mems, "OTP Memory")
                              /\ GetMemory(mems, "OTP Memory").sectors[1].addr = OtpBase
                otp_sectors == GetMemory(mems, "OTP Memory").sectors
            IN  Apply(LAMBDA b :
                    IF b.exc # NoExc THEN b
                    ELSE IF is_odrive3 THEN read_otp_board(b, otp_sectors)
                    ELSE IF ask
                    THEN [b EXCEPT !.self.board = choices[multiple_choice(answer) + 1]]
                    ELSE [b EXCEPT !.self.board = NoBoard],
                  IF verbose /\ is_odrive3 THEN dump_otp(a, otp_sectors) ELSE a),
          DfuDevice_init([w EXCEPT !.self._initialized = TRUE]))

\* legacy_dfu.py:31-84; answer is what the user types at the prompt
ODriveInDfuMode_init(w, verbose, ask, answer) ==
    IF w.exc # NoExc \/ w.self._initialized THEN w
    ELSE Apply(LAMBDA a :
            LET mems == a.self.memories
                is_odrive3 == /\ a.exc = NoExc
                              /\ HasMemory(mems, "OTP Memory")
                              /\ GetMemory(mems, "OTP Memory").sectors[1].addr = OtpBase
                otp_sectors == GetMemory(mems, "OTP Memory").sectors
            IN  Apply(LAMBDA b :
                    IF b.exc # NoExc THEN b
                    ELSE IF is_odrive3 THEN read_otp_board(b, otp_sectors)
                    ELSE IF ask
                    THEN [b EXCEPT !.self.board = choices[multiple_choice(answer) + 1]]
                    ELSE [b EXCEPT !.self.board = NoBoard],
                  IF verbose /\ is_odrive3 THEN dump_otp(a, otp_sectors) ELSE a),
          DfuDevice_init([w EXCEPT !.self._initialized = TRUE]))

(***************************************************************************)
(* Inputs: the firmware images and the devices the sessions are run with   *)
(***************************************************************************)
Segment(vaddr, paddr, filesz, memsz) ==
    [p_type |-> "PT_LOAD", p_vaddr |-> vaddr, p_paddr |-> paddr,
     p_filesz |-> filesz, p_memsz |-> memsz]
Section(name, addr, data) ==
    [name |-> name, sh_addr |-> addr, sh_size |-> Len(data), data |-> data]

\* target is the hardware version the image was built for; the legacy session
\* never reads it
Firmwares ==
    << \* vector table and code in the first sector
       [target |-> HwVersion(3, 6, 24),
        segments |-> << Segment(FlashBase, FlashBase, 8, 8) >>,
        sections |-> << Section(".isr_vector", FlashBase, <<1, 2, 3, 4>>),
                        Section(".text", FlashBase + 4, <<5, 6, 7, 8>>) >>],
       \* code across a 16-byte boundary, initialised data loaded from flash, .bss
       [target |-> HwVersion(3, 5, 56),
        segments |-> << Segment(FlashBase, FlashBase, 20, 20),
                        Segment(536870912, FlashBase + 36, 4, 8),
                        [Segment(0, 0, 0, 0) EXCEPT !.p_type = "PT_NOTE"] >>,
        sections |-> << Section(".isr_vector", FlashBase, <<1, 2, 3, 4>>),
                        Section(".text", FlashBase + 12, <<11, 12, 13, 14, 15, 16, 17, 18>>),
                        Section(".data", 536870912, <<21, 22, 23, 24>>),
                        Section(".bss", 536870912 + 4, <<0, 0, 0, 0>>) >>],
       \* an application linked behind the first sectors
       [target |-> HwVersion(4, 4, 58),
        segments |-> << Segment(FlashBase + 32, FlashBase + 32, 10, 10) >>,
        sections |-> << Section(".isr_vector", FlashBase + 32, <<31, 32, 33, 34>>),
                        Section(".text", FlashBase + 36, <<35, 36, 37, 38, 39, 40>>) >>] >>

SectorSpec(repeat, size, unit, mode) ==
    [repeat |-> repeat, size |-> size, unit |-> unit, mode |-> mode]
Interface(name, baseaddr, layout) ==
    [name |-> name, slashes |-> 2, baseaddr |-> baseaddr, layout |-> layout]

\* the OTP records a v3 board can carry (offsets into the OTP sector)
OtpRecords ==
    { (0 :> OtpMagic) @@ (3 :> 3) @@ (4 :> 6) @@ (5 :> 24),
      (0 :> 0) @@ (16 :> OtpMagic) @@ (19 :> 3) @@ (20 :> 5) @@ (21 :> 56),
      (0 :> 0) @@ (16 :> 1),
      <<>> }

\* flash cells that may be defective, as offsets from the flash base
BadCellOffsets == {3, 17, 35, 62}
\* what the flash holds before the session
OldFlash == [a \in {FlashBase, FlashBase + 20, FlashBase + 40, FlashBase + 50} |-> 0]

HwV3(otp) ==
    [kind |-> "v3", max_transfer_size |-> 256, exit_disconnects |-> FALSE, poll_ms |-> 1,
     interfaces |-> << Interface("Internal Flash", FlashBase,
                                 << SectorSpec(2, 16, " ", "g"), SectorSpec(1, 32, " ", "g") >>),
                       Interface("OTP Memory", OtpBase,
                                 << SectorSpec(1, 512, " ", "e"), SectorSpec(1, 16, " ", "e") >>) >>,
     otp |-> [a \in { OtpBase + k : k \in DOMAIN otp } |-> otp[a - OtpBase]]]

HwV4 ==
    [kind |-> "v4", max_transfer_size |-> 8, exit_disconnects |-> TRUE, poll_ms |-> 1,
     interfaces |-> << Interface("Internal Flash", FlashBase,
                                 << SectorSpec(1, 32, " ", "g"), SectorSpec(2, 16, " ", "g") >>) >>,
     otp |-> <<>>]

Boards == { HwV3(otp) : otp \in OtpRecords } \cup { HwV4 }

InitStates == {"DFU_IDLE", "DFU_ERROR", "DFU_UPLOAD_IDLE", "DFU_DOWNLOAD_IDLE"}

\* a device: a board, how slow it is, its defective cells, the state it is found in;
\* at most one of the last two departs from the nominal device
Hardware ==
    { h \in { [board |-> b, slow |-> sl, badCells |-> { FlashBase + o : o \in bad },
               state0 |-> st] :
                 b \in Boards, sl \in 0..MaxBusy,
                 bad \in { c \in SUBSET BadCellOffsets : Cardinality(c) <= 2 },
                 st \in InitStates } :
        h.badCells = {} \/ h.state0 = "DFU_IDLE" }

Nominal(hw) == hw.badCells = {} /\ hw.state0 = "DFU_IDLE"

NewDevice(h) ==
    [hw |-> [kind |-> h.board.kind, max_transfer_size |-> h.board.max_transfer_size,
             exit_disconnects |-> h.board.exit_disconnects, poll_ms |-> h.board.poll_ms,
             interfaces |-> h.board.interfaces, slow |-> h.slow, badCells |-> h.badCells,
             nominal |-> Nominal(h)],
     state |-> h.state0, status |-> IF h.state0 = "DFU_ERROR" THEN "ERROR_UNKNOWN" ELSE "OK",
     ptr |-> FlashBase, mem |-> h.board.otp @@ OldFlash, alt |-> "Internal Flash",
     pend |-> NoPend, busy |-> 0, present |-> TRUE, n |-> 0, fault |-> NoFault,
     elapsed |-> 0]

Faults == {NoFault} \cup [at : 0..MaxFaultAt, kind : FaultKinds]

(***************************************************************************)
(* The update session: legacy_dfu.py launch_dfu (from the firmware         *)
(* selection on) and write_firmware                                        *)
(***************************************************************************)
VARIABLES
    pc,               \* where the session is
    inp,              \* the caller's arguments and what was discovered
    self,             \* the ODriveInDfuMode object
    dev,              \* the bootloader device
    log,              \* the control requests sent so far
    mark,             \* Len(log) when the last step began
    exc,              \* the exception that ended the session (NoExc: none)
    err,              \* its payload
    touched_sectors,  \* the write plan
    erase_sectors,    \* the sectors to erase
    i,                \* the index of the running loop
    readback,         \* observed_data of the sectors verified so far
    report,           \* the verification failure reported
    plan_in,          \* planner check: the sector list and the section list
    plan_out,         \* planner check: the plan
    bus,              \* locating: the USB devices present, in enumeration order
    tasks,            \* locating: the discovery tasks and coroutines
    jobs,             \* locating: the work queue of the discoverer's executor thread
    order,            \* locating: the discovery tasks in the order they completed
    race,             \* locating: what asyncio.wait returned
    device,           \* locating: the device the session continues with
    sent,             \* locating: the commands sent to the device in application mode
    fn_in,            \* function check: the input of the function
    fn_out,           \* function check: what it has produced
    cancel,           \* the cancellation of the session task: none, requested, delivered
    lib               \* libodrive: the objects of libodrive.py and the threads that run them

locvars == << bus, tasks, jobs, order, race, device, sent >>

fnvars == << fn_in, fn_out >>

auxvars == << cancel, lib >>

vars == << pc, inp, self, dev, log, mark, exc, err, touched_sectors, erase_sectors,
           i, readback, report, plan_in, plan_out, locvars, fnvars, auxvars >>

\* libodrive is not loaded
NoLib == <<>>

\* no function is being checked
FnIdle ==
    /\ fn_in = <<>>
    /\ fn_out = <<>>
    /\ cancel = "none"
    /\ lib = NoLib

\* a device on the bus: the serial number its firmware reports, the serial string
\* of its USB descriptor in DFU mode, its mode, and whether the serial string can
\* be read
Drive(n, s, m, r) == [serial_number |-> n, usb_serial |-> s, mode |-> m, readable |-> r]

NoDrive == Drive(0, <<>>, "none", FALSE)

NoTask == [st |-> "none", at |-> "none", serial |-> <<>>, found |-> <<>>,
           devices |-> <<>>, result |-> NoDrive]

NoRace == [done |-> <<>>, pending |-> {}]

\* nothing is being located
LocateIdle ==
    /\ bus = <<>>
    /\ tasks = [t \in {"app", "dfu", "again"} |-> NoTask]
    /\ jobs = <<>>
    /\ order = <<>>
    /\ race = NoRace
    /\ device = NoDrive
    /\ sent = <<>>

NoReport == [address |-> -1, expected |-> <<>>, observed |-> <<>>]
NoPlanIn == [sectors |-> <<>>, sections |-> <<>>]

File == Firmwares[inp.fw]

\* the world the transport methods run in during one step, with the planned fault
World(ph, f) ==
    [self |-> self, dev |-> [dev EXCEPT !.fault = f, !.n = 0], log |-> log,
     exc |-> NoExc, err |-> NoErr, ret |-> None, ph |-> ph]

\* the state after a step that ran the transport up to world w
Commit(w) ==
    /\ self' = w.self
    /\ dev' = [w.dev EXCEPT !.fault = NoFault, !.n = 0]
    /\ log' = w.log
    /\ mark' = Len(log)
    /\ exc' = w.exc
    /\ err' = w.err

\* the loop that follows: erase, flash, verify, then the jump (empty loops are skipped)
AfterErase(touched) == IF Len(touched) > 0 THEN "flash" ELSE "jump"
FirstLoop(erase, touched) == IF Len(erase) > 0 THEN "erase" ELSE AfterErase(touched)

\* The inputs vary one group at a time: how the device is found and identified
\* (path, found_in_dfu, verbose), or what is flashed (fw, erase_all); a device
\* that departs from the nominal one is run with the baseline identification.
IdentifyBaseline(in) == in.path /\ in.found_in_dfu /\ ~in.verbose
FlashBaseline(in) == in.fw = 1 /\ ~in.erase_all
Scenario(in, d) ==
    /\ IdentifyBaseline(in) \/ FlashBaseline(in)
    /\ d.hw.nominal \/ (IdentifyBaseline(in) /\ (d.hw.badCells = {} \/ d.hw.slow = 0))

\* faults hit nominal devices; a long (but acceptable) poll interval comes at
\* most once in a session, and in sessions with the baseline arguments
FaultAllowed(f) ==
    \/ f = NoFault
    \/ dev.hw.nominal /\ f.kind # "longpoll"
    \/ /\ dev.hw.nominal /\ f.kind = "longpoll" /\ dev.elapsed < PollTimeoutLimit
       /\ IdentifyBaseline(inp) /\ FlashBaseline(inp) /\ dev.hw.slow = 0

Init ==
    /\ pc = "launch"
    /\ inp \in [path : BOOLEAN, erase_all : BOOLEAN, verbose : BOOLEAN,
                found_in_dfu : BOOLEAN, fw : 1..Len(Firmwares)]
    /\ self = NewODriveInDfuMode
    /\ dev \in { NewDevice(h) : h \in Hardware }
    /\ Scenario(inp, dev)
    /\ log = <<>>
    /\ mark = 0
    /\ exc = NoExc
    /\ err = NoErr
    /\ touched_sectors = <<>>
    /\ erase_sectors = <<>>
    /\ i = 0
    /\ readback = <<>>
    /\ report = NoReport
    /\ plan_in = NoPlanIn
    /\ plan_out = <<>>
    /\ LocateIdle
    /\ FnIdle

\* legacy_dfu.py:351-360: a firmware file given by path is taken as it is; otherwise
\* a device found in DFU mode is identified (prompting) to look the firmware up
LaunchDfu ==
    /\ pc = "launch"
    /\ \E f \in Faults, answer \in 1..Len(choices) :
        /\ FaultAllowed(f)
        /\ multiple_choice_accepts(answer, Len(choices))
        /\ \E w \in { IF ~inp.path /\ inp.found_in_dfu
                      THEN ODriveInDfuMode_init(World("init", f), inp.verbose, TRUE, answer)
                      ELSE World("init", f) } :
               /\ Commit(w)
               /\ pc' = IF w.exc # NoExc THEN "failed" ELSE "wf_enter"
    /\ UNCHANGED << inp, touched_sectors, erase_sectors, i, readback, report, plan_in, plan_out, locvars, fnvars, auxvars >>

\* legacy_dfu.py:180-181 and 131-168: a device found in application mode is put
\* into DFU mode and found again as a new ODriveInDfuMode object
EnterDfuMode ==
    /\ pc = "wf_enter"
    /\ \E has_enter_dfu_mode \in BOOLEAN, result \in {"True", "False", "ObjectLostError"} :
        LET raised == IF inp.found_in_dfu THEN NoExc
                      ELSE IF ~has_enter_dfu_mode THEN "Exception"
                      ELSE IF result = "False" THEN "DfuError"
                      ELSE NoExc
        IN  /\ exc' = raised
            /\ pc' = IF raised # NoExc THEN "failed" ELSE "wf_init"
            /\ self' = IF inp.found_in_dfu THEN self ELSE NewODriveInDfuMode
    /\ mark' = Len(log)
    /\ UNCHANGED << inp, dev, log, err, touched_sectors, erase_sectors, i, readback,
                    report, plan_in, plan_out, locvars, fnvars, auxvars >>

\* legacy_dfu.py:183-191
IdentifyHardware ==
    /\ pc = "wf_init"
    /\ \E f \in Faults :
        /\ FaultAllowed(f)
        /\ \E a \in { ODriveInDfuMode_init(World("init", f), inp.verbose, FALSE, 0) } :
           \E b \in { IF a.exc = NoExc /\ a.self.board = HwVersion(3, 0, 0)
                      THEN jump_to_application([a EXCEPT !.ph = "abort"], FlashBase)
                      ELSE a } :
           \E w \in { IF b.exc = NoExc /\ b.self.board = HwVersion(3, 0, 0)
                      THEN Raise(b, "DfuError", Msg("Could not determine hardware version."))
                      ELSE b } :
               /\ Commit(w)
               /\ pc' = IF w.exc # NoExc THEN "failed" ELSE "wf_plan"
    /\ UNCHANGED << inp, touched_sectors, erase_sectors, i, readback, report, plan_in, plan_out, locvars, fnvars, auxvars >>

\* a faulty variant of select_erase_sectors: erase_all is ignored
select_erase_sectors_planned(erase_all, internal_flash_sectors, touched) ==
    [k \in 1..Len(touched) |-> touched[k].sector]

\* a faulty variant of select_erase_sectors: only the first sector of the list
select_erase_sectors_first(erase_all, internal_flash_sectors, touched) ==
    IF erase_all THEN Slice(internal_flash_sectors, 0, 1)
    ELSE [k \in 1..Min(1, Len(touched)) |-> touched[k].sector]

\* legacy_dfu.py:216-220
select_erase_sectors(erase_all, internal_flash_sectors, touched) ==
    IF erase_all THEN internal_flash_sectors
    ELSE [k \in 1..Len(touched) |-> touched[k].sector]

\* legacy_dfu.py:202-220
Plan ==
    /\ pc = "wf_plan"
    /\ \E f \in Faults :
        /\ FaultAllowed(f)
        /\ \E flash \in { IF HasMemory(self.memories, "Internal Flash")
                          THEN GetMemory(self.memories, "Internal Flash").sectors
                          ELSE <<>> } :
           \E touched \in { _populate_sectors(flash, get_flash_sections(File)) } :
           \E erase \in { select_erase_sectors(inp.erase_all, flash, touched) } :
           \E w \in { IF ~HasMemory(self.memories, "Internal Flash")
                      THEN Raise(World("clear", f), "KeyError", Msg("Internal Flash"))
                      ELSE clear_status(select_memory(World("clear", f), "Internal Flash")) } :
               /\ Commit(w)
               /\ IF w.exc # NoExc
                  THEN /\ pc' = "failed"
                       /\ UNCHANGED << touched_sectors, erase_sectors >>
                  ELSE /\ pc' = FirstLoop(erase, touched)
                       /\ touched_sectors' = touched
                       /\ erase_sectors' = erase
    /\ i' = 0
    /\ UNCHANGED << inp, readback, report, plan_in, plan_out, locvars, fnvars, auxvars >>

\* legacy_dfu.py:221-223, one iteration
Erase ==
    /\ pc = "erase"
    /\ \E f \in Faults :
        /\ FaultAllowed(f)
        /\ \E w \in { erase_sector(World("erase", f), erase_sectors[i + 1]) } :
               /\ Commit(w)
               /\ pc' = IF w.exc # NoExc THEN "failed"
                        ELSE IF i + 1 < Len(erase_sectors) THEN "erase"
                        ELSE AfterErase(touched_sectors)
               /\ i' = IF w.exc = NoExc /\ i + 1 < Len(erase_sectors) THEN i + 1 ELSE 0
    /\ UNCHANGED << inp, touched_sectors, erase_sectors, readback, report, plan_in, plan_out, locvars, fnvars, auxvars >>

\* legacy_dfu.py:230-232, one iteration
Flash ==
    /\ pc = "flash"
    /\ \E f \in Faults :
        /\ FaultAllowed(f)
        /\ \E w \in { write_sector(World("flash", f), touched_sectors[i + 1].sector,
                                    touched_sectors[i + 1].data) } :
               /\ Commit(w)
               /\ pc' = IF w.exc # NoExc THEN "failed"
                        ELSE IF i + 1 < Len(touched_sectors) THEN "flash"
                        ELSE "verify"
               /\ i' = IF w.exc = NoExc /\ i + 1 < Len(touched_sectors) THEN i + 1 ELSE 0
    /\ UNCHANGED << inp, touched_sectors, erase_sectors, readback, report, plan_in, plan_out, locvars, fnvars, auxvars >>

\* a faulty variant of verification_report: the position is not aligned
verification_report_unaligned(sector, expected_data, observed_data, mismatch_pos0) ==
    [address |-> sector.addr + mismatch_pos0,
     expected |-> Slice(expected_data, mismatch_pos0, mismatch_pos0 + SnippetLen),
     observed |-> Slice(observed_data, mismatch_pos0, mismatch_pos0 + SnippetLen)]

\* legacy_dfu.py:244-249: the report of a mismatch at mismatch_pos
verification_report(sector, expected_data, observed_data, mismatch_pos0) ==
    LET mismatch_pos == mismatch_pos0 - (mismatch_pos0 % SnippetLen)
    IN  [address |-> sector.addr + mismatch_pos,
         expected |-> Slice(expected_data, mismatch_pos, mismatch_pos + SnippetLen),
         observed |-> Slice(observed_data, mismatch_pos, mismatch_pos + SnippetLen)]

\* legacy_dfu.py:239-249, one iteration
Verify ==
    /\ pc = "verify"
    /\ \E f \in Faults :
        /\ FaultAllowed(f)
        /\ \E r \in { read_sector(World("verify", f), touched_sectors[i + 1].sector) } :
           LET sector == touched_sectors[i + 1].sector
               expected_data == touched_sectors[i + 1].data
               observed_data == r.ret
               mismatch_pos == _get_first_mismatch_index(observed_data, expected_data)
               w == IF r.exc # NoExc THEN r
                    ELSE IF Len(observed_data) # Len(expected_data)
                    THEN Raise(r, "Exception", Msg("arrays must be same size"))
                    ELSE IF mismatch_pos # -1
                    THEN Raise(r, "RuntimeError", Msg("Verification failed"))
                    ELSE r
           IN  /\ Commit(w)
               /\ readback' = IF r.exc = NoExc THEN Append(readback, observed_data) ELSE readback
               /\ report' = IF w.exc = "RuntimeError"
                            THEN verification_report(sector, expected_data, observed_data,
                                                     mismatch_pos)
                            ELSE report
               /\ pc' = IF w.exc # NoExc THEN "failed"
                        ELSE IF i + 1 < Len(touched_sectors) THEN "verify"
                        ELSE "jump"
               /\ i' = IF w.exc = NoExc /\ i + 1 < Len(touched_sectors) THEN i + 1 ELSE 0
    /\ UNCHANGED << inp, touched_sectors, erase_sectors, plan_in, plan_out, locvars, fnvars, auxvars >>

\* legacy_dfu.py:255
Jump ==
    /\ pc = "jump"
    /\ \E f \in Faults :
        /\ FaultAllowed(f)
        /\ \E w \in { jump_to_application(World("exit", f), FlashBase) } :
               /\ Commit(w)
               /\ pc' = IF w.exc # NoExc THEN "failed" ELSE "done"
    /\ i' = 0
    /\ UNCHANGED << inp, touched_sectors, erase_sectors, readback, report, plan_in, plan_out, locvars, fnvars, auxvars >>

Next ==
    \/ LaunchDfu
    \/ EnterDfuMode
    \/ IdentifyHardware
    \/ Plan
    \/ Erase
    \/ Flash
    \/ Verify
    \/ Jump

Spec == Init /\ [][Next]_vars

(***************************************************************************)
(* Cancellation of the session task.  launch_dfu and write_firmware are    *)
(* coroutines; task.cancel() only marks the task, and CancelledError is    *)
(* thrown into it where it is suspended in an await.                       *)
(***************************************************************************)

\* a wrong session that yields to the event loop between two sectors
await_points_each_sector(p, in) ==
    \/ p = "launch" /\ ~in.path
    \/ p = "wf_enter" /\ ~in.found_in_dfu
    \/ p \in {"erase", "flash", "verify"}
    \/ p = "done" /\ ~in.found_in_dfu

\* legacy_dfu.py:360, 181, 375: the positions of the session where the task is
\* suspended: the firmware lookup, entering DFU mode and waiting for the device
\* to reappear; lines 183-255 hold no await
await_points(p, in) ==
    \/ p = "launch" /\ ~in.path
    \/ p = "wf_enter" /\ ~in.found_in_dfu
    \/ p = "done" /\ ~in.found_in_dfu

\* task.cancel() called from a callback or another thread while the session runs
RequestCancel ==
    /\ cancel = "none"
    /\ pc \notin {"failed", "cancelled"}
    /\ cancel' = "requested"
    /\ UNCHANGED << pc, inp, self, dev, log, mark, exc, err, touched_sectors, erase_sectors,
                    i, readback, report, plan_in, plan_out, locvars, fn_in, fn_out, lib >>

\* the event loop throws CancelledError into the suspended coroutine
DeliverCancel ==
    /\ cancel = "requested"
    /\ await_points(pc, inp)
    /\ cancel' = "delivered"
    /\ exc' = "CancelledError"
    /\ pc' = "cancelled"
    /\ UNCHANGED << inp, self, dev, log, mark, err, touched_sectors, erase_sectors,
                    i, readback, report, plan_in, plan_out, locvars, fn_in, fn_out, lib >>

NextCancel ==
    \/ Next
    \/ RequestCancel
    \/ DeliverCancel

SpecCancel == Init /\ [][NextCancel]_vars

(***************************************************************************)
(* The planner on its own: _populate_sectors applied to bounded sector     *)
(* lists and section lists (two contiguous sectors, up to two sections,    *)
(* empty sections and empty sectors included)                              *)
(***************************************************************************)
PlanSectors ==
    { << [addr |-> PlanMaxSectionLen, len |-> l1, mode |-> "g"],
         [addr |-> PlanMaxSectionLen + l1, len |-> l2, mode |-> "g"] >> :
        l1 \in 0..PlanMaxSectorLen, l2 \in 0..PlanMaxSectorLen }

\* section k holds the bytes 16 * k + 1, 16 * k + 2, ... (none is the erase value)
PlanSection(k, addr, len) ==
    [name |-> k, addr |-> addr, content |-> [j \in 1..len |-> 16 * k + j]]

PlanAddrs == 0..(PlanMaxSectionLen + 2 * PlanMaxSectorLen + 1)

PlanSectionLists ==
    { <<>> }
    \cup { << PlanSection(1, a, l) >> : a \in PlanAddrs, l \in 0..PlanMaxSectionLen }
    \cup { << PlanSection(1, a, l), PlanSection(2, b, m) >> :
             a \in PlanAddrs, l \in 0..PlanMaxSectionLen,
             b \in PlanAddrs, m \in 0..PlanMaxSectionLen }

InitPlan ==
    /\ pc = "plan"
    /\ plan_in \in [sectors : PlanSectors, sections : PlanSectionLists]
    /\ plan_out = <<>>
    /\ LocateIdle
    /\ FnIdle
    /\ inp = [path |-> TRUE, erase_all |-> FALSE, verbose |-> FALSE,
              found_in_dfu |-> TRUE, fw |-> 1]
    /\ self = NewODriveInDfuMode
    /\ dev = NewDevice([board |-> HwV4, slow |-> 0, badCells |-> {}, state0 |-> "DFU_IDLE"])
    /\ log = <<>>
    /\ mark = 0
    /\ exc = NoExc
    /\ err = NoErr
    /\ touched_sectors = <<>>
    /\ erase_sectors = <<>>
    /\ i = 0
    /\ readback = <<>>
    /\ report = NoReport

\* legacy_dfu.py:382-412
PopulateSectors ==
    /\ pc = "plan"
    /\ plan_out' = _populate_sectors(plan_in.sectors, plan_in.sections)
    /\ pc' = "planned"
    /\ UNCHANGED << inp, self, dev, log, mark, exc, err, touched_sectors, erase_sectors,
                    i, readback, report, plan_in, locvars, fnvars, auxvars >>

NextPlan == PopulateSectors

SpecPlan == InitPlan /\ [][NextPlan]_vars

(***************************************************************************)
(* The planner called twice on the same list objects.  A call is given the *)
(* lists by reference; what it returns here is the plan together with the  *)
(* lists as the call leaves them.                                          *)
(***************************************************************************)
\* a wrong planner that stores the pruned content back into the section list
_populate_sectors_call_inplace(in) ==
    [plan |-> _populate_sectors(in.sectors, in.sections),
     in   |-> [in EXCEPT !.sections =
                 [k \in 1..Len(in.sections) |->
                     IF Len(in.sectors) = 0 THEN in.sections[k]
                     ELSE [in.sections[k] EXCEPT
                             !.content = Slice(@, 0, Max(0, in.sectors[1].addr + in.sectors[1].len
                                                            - in.sections[k].addr))]]]]

\* legacy_dfu.py:382-412: every assignment of the loops binds a local name
\* (sector_content, section_content, section_addr) to a new bytes object or
\* number; nothing is stored into a sector or into the section list
_populate_sectors_call(in) ==
    [plan |-> _populate_sectors(in.sectors, in.sections), in |-> in]

InitReplan ==
    /\ pc = "plan"
    /\ plan_in \in [sectors : PlanSectors, sections : PlanSectionLists]
    /\ fn_in = plan_in
    /\ fn_out = <<>>
    /\ cancel = "none"
    /\ lib = NoLib
    /\ plan_out = <<>>
    /\ LocateIdle
    /\ inp = [path |-> TRUE, erase_all |-> FALSE, verbose |-> FALSE,
              found_in_dfu |-> TRUE, fw |-> 1]
    /\ self = NewODriveInDfuMode
    /\ dev = NewDevice([board |-> HwV4, slow |-> 0, badCells |-> {}, state0 |-> "DFU_IDLE"])
    /\ log = <<>>
    /\ mark = 0
    /\ exc = NoExc
    /\ err = NoErr
    /\ touched_sectors = <<>>
    /\ erase_sectors = <<>>
    /\ i = 0
    /\ readback = <<>>
    /\ report = NoReport

\* the first call: list(_populate_sectors(sectors, sections))
PlanFirst ==
    /\ pc = "plan"
    /\ \E r \in { _populate_sectors_call(plan_in) } :
         /\ plan_out' = r.plan
         /\ plan_in' = r.in
    /\ pc' = "planned"
    /\ UNCHANGED << inp, self, dev, log, mark, exc, err, touched_sectors, erase_sectors,
                    i, readback, report, locvars, fnvars, auxvars >>

\* the second call, on the lists as the first call left them
PlanSecond ==
    /\ pc = "planned"
    /\ \E r \in { _populate_sectors_call(plan_in) } :
         /\ fn_out' = r.plan
         /\ plan_in' = r.in
    /\ pc' = "replanned"
    /\ UNCHANGED << inp, self, dev, log, mark, exc, err, touched_sectors, erase_sectors,
                    i, readback, report, plan_out, locvars, fn_in, auxvars >>

NextReplan ==
    \/ PlanFirst
    \/ PlanSecond

SpecReplan == InitReplan /\ [][NextReplan]_vars

\* the addresses of a sector and of a section (half-open ranges)
SectorRange(sector) == sector.addr .. (sector.addr + sector.len - 1)
SectionRange(section) == section.addr .. (section.addr + Len(section.content) - 1)

(***************************************************************************)
(* write_sector followed by read_sector on their own: a fault-free device  *)
(* with small sectors, every sector of it and every buffer of the sector's *)
(* length over the bytes 0..RtMaxByte                                      *)
(***************************************************************************)
RtBoard(mts) ==
    [kind |-> "rt", max_transfer_size |-> mts, exit_disconnects |-> FALSE, poll_ms |-> 1,
     interfaces |-> << Interface("Internal Flash", FlashBase,
                                 << SectorSpec(1, 4, " ", "g"), SectorSpec(1, 3, " ", "g"),
                                    SectorSpec(1, 2, " ", "g") >>) >>,
     otp |-> <<>>]

RtDevices ==
    { NewDevice([board |-> RtBoard(mts), slow |-> sl, badCells |-> {}, state0 |-> "DFU_IDLE"]) :
        mts \in 1..RtMaxTransfer, sl \in 0..MaxBusy }

RtSectors == LayoutSectors(RtBoard(1).interfaces[1].layout, FlashBase)

InitRt ==
    /\ pc = "rt_init"
    /\ dev \in RtDevices
    /\ \E k \in 1..Len(RtSectors) :
         touched_sectors \in { << [sector |-> RtSectors[k], data |-> B] >> :
                                 B \in [1..RtSectors[k].len -> 0..RtMaxByte] }
    /\ inp = [path |-> TRUE, erase_all |-> FALSE, verbose |-> FALSE,
              found_in_dfu |-> TRUE, fw |-> 1]
    /\ self = NewODriveInDfuMode
    /\ log = <<>>
    /\ mark = 0
    /\ exc = NoExc
    /\ err = NoErr
    /\ erase_sectors = <<>>
    /\ i = 0
    /\ readback = <<>>
    /\ report = NoReport
    /\ plan_in = NoPlanIn
    /\ plan_out = <<>>
    /\ LocateIdle
    /\ FnIdle

\* DfuDevice.init, select_memory('Internal Flash'), clear_status
RtOpen ==
    /\ pc = "rt_init"
    /\ \E w \in { clear_status(select_memory(DfuDevice_init(World("init", NoFault)),
                                             "Internal Flash")) } :
           /\ Commit(w)
           /\ pc' = IF w.exc # NoExc THEN "failed" ELSE "rt_write"
    /\ UNCHANGED << inp, touched_sectors, erase_sectors, i, readback, report, plan_in, plan_out, locvars, fnvars, auxvars >>

RtWriteSector ==
    /\ pc = "rt_write"
    /\ \E w \in { write_sector(World("flash", NoFault), touched_sectors[1].sector,
                                touched_sectors[1].data) } :
           /\ Commit(w)
           /\ pc' = IF w.exc # NoExc THEN "failed" ELSE "rt_read"
    /\ UNCHANGED << inp, touched_sectors, erase_sectors, i, readback, report, plan_in, plan_out, locvars, fnvars, auxvars >>

RtReadSector ==
    /\ pc = "rt_read"
    /\ \E w \in { read_sector(World("verify", NoFault), touched_sectors[1].sector) } :
           /\ Commit(w)
           /\ pc' = IF w.exc # NoExc THEN "failed" ELSE "rt_done"
           /\ readback' = IF w.exc = NoExc THEN << w.ret >> ELSE readback
    /\ UNCHANGED << inp, touched_sectors, erase_sectors, i, report, plan_in, plan_out, locvars, fnvars, auxvars >>

NextRt ==
    \/ RtOpen
    \/ RtWriteSector
    \/ RtReadSector

SpecRt == InitRt /\ [][NextRt]_vars


(***************************************************************************)
(* _expect_state on its own: one call, with busy and target sets as the    *)
(* transport uses them and others, on a device found in any state          *)
(***************************************************************************)
ExpectStates ==
    {"DFU_IDLE", "DFU_DOWNLOAD_SYNC", "DFU_DOWNLOAD_BUSY", "DFU_DOWNLOAD_IDLE",
     "DFU_MANIFEST_SYNC", "DFU_MANIFEST", "DFU_UPLOAD_IDLE", "DFU_ERROR"}

\* the busy sets hold states the device leaves by itself
ExpectBusySets == SUBSET {"DFU_DOWNLOAD_SYNC", "DFU_DOWNLOAD_BUSY", "DFU_MANIFEST_SYNC"}
ExpectTargetSets ==
    { {}, {"DFU_IDLE", "DFU_DOWNLOAD_IDLE"}, {"DFU_DOWNLOAD_IDLE"}, {"DFU_MANIFEST"},
      {"DFU_DOWNLOAD_BUSY", "DFU_MANIFEST"} }

InitExpect ==
    /\ pc = "expect"
    /\ inp \in [busy_states : ExpectBusySets, target_states : ExpectTargetSets]
    /\ dev \in { [NewDevice([board |-> b, slow |-> sl, badCells |-> {}, state0 |-> st])
                    EXCEPT !.busy = sl] :
                   b \in {HwV3(<<>>), HwV4}, sl \in 0..MaxBusy, st \in ExpectStates }
    /\ self = [NewODriveInDfuMode EXCEPT !._memory = "Internal Flash"]
    /\ log = <<>>
    /\ mark = 0
    /\ exc = NoExc
    /\ err = NoErr
    /\ touched_sectors = <<>>
    /\ erase_sectors = <<>>
    /\ i = 0
    /\ readback = <<>>
    /\ report = NoReport
    /\ plan_in = NoPlanIn
    /\ plan_out = <<>>
    /\ LocateIdle
    /\ FnIdle

\* DfuDevice.py:229-235; the device may misbehave at one of the polls
ExpectState ==
    /\ pc = "expect"
    /\ \E f \in Faults :
         \E w \in { _expect_state(World("expect", f), inp.busy_states, inp.target_states,
                                  "error_text") } :
            /\ Commit(w)
            /\ pc' = IF w.exc # NoExc THEN "failed" ELSE "returned"
    /\ UNCHANGED << inp, touched_sectors, erase_sectors, i, readback, report, plan_in, plan_out, locvars, fnvars, auxvars >>

NextExpect == ExpectState

SpecExpect == InitExpect /\ [][NextExpect]_vars


(***************************************************************************)
(* Locating the device.  legacy_dfu.py: launch_dfu:305-319 races the        *)
(* discovery of devices in application mode against DfuDeviceDiscovery, and *)
(* enter_dfu_mode finds a device again after it was sent to the bootloader. *)
(* dfu.py does the same with await_first and libodrive's Interface.  The    *)
(* main coroutine, the tasks and the executor thread are separate actions;  *)
(* a coroutine runs without interruption between two awaits.                *)
(***************************************************************************)
sessvars == << self, dev, log, mark, touched_sectors, erase_sectors, i, readback,
               report, plan_in, plan_out >>

HexWidth == 8

\* no serial number given (None)
NoSerial == <<>>

RECURSIVE HexDigits(_)
HexDigits(n) == IF n < 16 THEN <<n>> ELSE Append(HexDigits(n \div 16), n % 16)

\* "{:08X}".format(n): the hexadecimal digits of n, zero-padded to eight digits
Format08X(n) ==
    Apply(LAMBDA d : IF Len(d) >= HexWidth THEN d ELSE Repeat(0, HexWidth - Len(d)) \o d,
          HexDigits(n))

\* the serial string the host sees: the USB descriptor of a device in DFU mode,
\* the firmware's number as utils.py:104 formats it otherwise
SerialString(d) == IF d.mode = "dfu" THEN d.usb_serial ELSE Format08X(d.serial_number)

\* usb.core.find(idVendor=0x0483, idProduct=0xdf11, find_all=True): the STM32
\* bootloaders on the bus
usb_core_find(b) == SelectSeq(b, LAMBDA d : d.mode = "dfu")

\* fibre's connected_devices: the devices running application firmware
connected_devices(b) == SelectSeq(b, LAMBDA d : d.mode = "app")

\* all_devices[key] = value: a key already known keeps its place
dict_set(dict, key, value) ==
    IF \E k \in 1..Len(dict) : dict[k].key = key
    THEN [k \in 1..Len(dict) |->
            IF dict[k].key = key THEN [key |-> key, value |-> value] ELSE dict[k]]
    ELSE Append(dict, [key |-> key, value |-> value])

\* legacy_dfu.py:101-110
RECURSIVE _get_devices(_, _)
_get_devices(found, all_devices) ==
    IF found = <<>> THEN all_devices
    ELSE IF ~Head(found).readable THEN _get_devices(Tail(found), all_devices)
    ELSE _get_devices(Tail(found),
                      dict_set(all_devices, Head(found).usb_serial, Head(found)))

\* a faulty variant of discover_match: the serial number is not looked at
discover_match_any(serial_number, devices) ==
    IF Len(devices) > 0 THEN devices[1].value ELSE NoDrive

\* legacy_dfu.py:123-126: what discover returns from one enumeration (NoDrive:
\* nothing, it sleeps and enumerates again)
discover_match(serial_number, devices) ==
    IF serial_number = NoSerial /\ Len(devices) > 0 THEN devices[1].value
    ELSE IF serial_number # NoSerial /\ \E k \in 1..Len(devices) : devices[k].key = serial_number
    THEN devices[CHOOSE k \in 1..Len(devices) : devices[k].key = serial_number].value
    ELSE NoDrive

\* libodrive.py:227-234 (NoDrive: None); is_bootloader is "True", "False" or None
RECURSIVE get_device(_, _, _)
get_device(devices, serial_number, is_bootloader) ==
    IF devices = <<>> THEN NoDrive
    ELSE IF serial_number # NoSerial /\ SerialString(Head(devices)) # serial_number
    THEN get_device(Tail(devices), serial_number, is_bootloader)
    ELSE IF is_bootloader # None
            /\ (IF Head(devices).mode = "dfu" THEN "True" ELSE "False") # is_bootloader
    THEN get_device(Tail(devices), serial_number, is_bootloader)
    ELSE Head(devices)

\* odrive/__init__.py:138-141 (NoDrive: no device yet)
RECURSIVE find_any(_, _)
find_any(objs, serial_number) ==
    IF objs = <<>> THEN NoDrive
    ELSE IF serial_number = NoSerial \/ Format08X(Head(objs).serial_number) = serial_number
    THEN Head(objs)
    ELSE find_any(Tail(objs), serial_number)

\* a faulty variant of enter_dfu_mode_raises: a lost object is a failure
enter_dfu_mode_raises_lost(legacy, has_enter_dfu_mode, result) ==
    IF legacy /\ ~has_enter_dfu_mode THEN "Exception"
    ELSE IF result = "ObjectLostError" THEN "ObjectLostError"
    ELSE IF result = "False" THEN "DfuError"
    ELSE NoExc

\* legacy_dfu.py:134-162 and dfu.py:22-27: the exception enter_dfu_mode raises
\* before it looks for the device again
enter_dfu_mode_raises(legacy, has_enter_dfu_mode, result) ==
    IF legacy /\ ~has_enter_dfu_mode THEN "Exception"
    ELSE IF (IF result = "ObjectLostError" THEN "True" ELSE result) = "False" THEN "DfuError"
    ELSE NoExc

\* the attributes of the object of a device in application mode
AppFw(hw, fw, bl, db) ==
    [hw_version_major |-> hw, fw_version |-> fw, bootloader_version |-> bl,
     disable_bootloader |-> db]

NewDfuVersion == 65536

buggy_firmwares == { <<0, 6, 5>>, <<0, 6, 6>> }

GuidedRunModeError ==
    Msg("The firmware on device does not support starting a firmware update from RUN mode. Please remove power, put the DFU switch into DFU mode, then apply power again.")

GuidedSwitchError ==
    Msg("The firmware on device cannot soft enter DFU mode. Please remove power, put the DFU switch into DFU mode, then apply power again.")

\* legacy_dfu.py:321-350 and dfu.py:117-124: the exception raised (NoExc: none),
\* and whether launch_dfu returns because the caller declined
launch_check(legacy, fw, force, answer) ==
    IF ~legacy
    THEN IF fw.bootloader_version = 0
         THEN [exc |-> "DfuError", err |-> Msg("New DFU system not installed on device."),
               returns |-> FALSE]
         ELSE [exc |-> NoExc, err |-> NoErr, returns |-> FALSE]
    ELSE IF \/ fw.hw_version_major = 0
            \/ fw.fw_version = <<0, 0, 0>>
            \/ fw.hw_version_major = 4 /\ fw.fw_version \in buggy_firmwares
    THEN [exc |-> "DfuError", err |-> GuidedRunModeError, returns |-> FALSE]
    ELSE [exc |-> NoExc, err |-> NoErr,
          returns |-> fw.bootloader_version >= NewDfuVersion /\ ~force /\ ~answer]

\* a faulty variant of enter_dfu_mode_sends: the command is sent before the test
enter_dfu_mode_sends_first(legacy, disable_bootloader, raised) ==
    (IF legacy /\ disable_bootloader THEN << "disable_bootloader" >> ELSE <<>>)
        \o << IF legacy THEN "enter_dfu_mode" ELSE "enter_dfu_mode2" >>

\* legacy_dfu.py:134-158 and dfu.py:22-23: the commands enter_dfu_mode sends to the
\* device, given the exception it raises
enter_dfu_mode_sends(legacy, disable_bootloader, raised) ==
    IF raised = "Exception" THEN <<>>
    ELSE (IF legacy /\ disable_bootloader THEN << "disable_bootloader" >> ELSE <<>>)
            \o << IF legacy THEN "enter_dfu_mode" ELSE "enter_dfu_mode2" >>

\* legacy_dfu.py:135-144,162 and dfu.py:27: the text of the exception
enter_dfu_mode_error(legacy, raised) ==
    IF raised = "Exception" THEN GuidedSwitchError
    ELSE IF raised = "DfuError"
    THEN Msg(IF legacy THEN "Could not put device into legacy DFU mode."
             ELSE "Failed to enter DFU mode.")
    ELSE NoErr

\* the firmwares a device in application mode can run
LocFirmwares ==
    { AppFw(3, <<0, 5, 1>>, 0, FALSE), AppFw(4, <<0, 6, 7>>, NewDfuVersion, TRUE),
      AppFw(4, <<0, 6, 5>>, 0, FALSE), AppFw(0, <<0, 5, 1>>, 0, FALSE),
      AppFw(3, <<0, 0, 0>>, 0, FALSE) }

\* either the firmware or the rest of the input departs from the usual one
FwBaseline(in) ==
    /\ in.fw = AppFw(4, <<0, 6, 7>>, NewDfuVersion, TRUE)
    /\ in.force /\ in.answer

LocBaseline(in) ==
    /\ in.serial_number = NoSerial
    /\ in.has_enter_dfu_mode
    /\ in.result = "True"

\* the devices that can be on the bus; the last one shows another serial string
\* in DFU mode than its firmware does
LocDrives ==
    { Drive(1, Format08X(1), "app", TRUE), Drive(1, Format08X(1), "dfu", TRUE),
      Drive(26, Format08X(26), "app", TRUE), Drive(26, Format08X(26), "dfu", TRUE),
      Drive(26, Format08X(26), "dfu", FALSE), Drive(26, <<1, 10>>, "app", TRUE) }

\* at most two devices, each physical device once
LocBuses ==
    { <<>> } \cup { << d >> : d \in LocDrives }
      \cup { b \in { << d, e >> : d \in LocDrives, e \in LocDrives } :
                 b[1].serial_number # b[2].serial_number }

LocSerials == { Format08X(1), Format08X(26) }

Remove(s, k) == SubSeq(s, 1, k - 1) \o SubSeq(s, k + 1, Len(s))

\* the orders in which a set can be iterated
Orderings(S) ==
    { q \in [1..Cardinality(S) -> S] : \A a, b \in 1..Cardinality(S) : q[a] = q[b] => a = b }

\* legacy_dfu.py:307-310, dfu.py:110-113: both tasks are created and waited for
InitLocate ==
    /\ pc = "loc_wait"
    /\ inp \in { in \in [serial_number : {NoSerial} \cup LocSerials, legacy : BOOLEAN,
                         has_enter_dfu_mode : BOOLEAN,
                         result : {"True", "False", "ObjectLostError"},
                         fw : LocFirmwares, force : BOOLEAN, answer : BOOLEAN] :
                   /\ in.legacy \/ in.has_enter_dfu_mode
                   /\ LocBaseline(in) \/ FwBaseline(in) }
    /\ bus \in LocBuses
    /\ tasks = [t \in {"app", "dfu", "again"} |->
                  IF t = "again" THEN NoTask
                  ELSE [NoTask EXCEPT !.st = "pending", !.serial = inp.serial_number,
                                      !.at = IF t = "dfu" /\ inp.legacy THEN "submit"
                                             ELSE "scan"]]
    /\ jobs = <<>>
    /\ order = <<>>
    /\ race = NoRace
    /\ device = NoDrive
    /\ sent = <<>>
    /\ FnIdle
    /\ exc = NoExc
    /\ self = NewODriveInDfuMode
    /\ dev = NewDevice([board |-> HwV4, slow |-> 0, badCells |-> {}, state0 |-> "DFU_IDLE"])
    /\ log = <<>>
    /\ mark = 0
    /\ err = NoErr
    /\ touched_sectors = <<>>
    /\ erase_sectors = <<>>
    /\ i = 0
    /\ readback = <<>>
    /\ report = NoReport
    /\ plan_in = NoPlanIn
    /\ plan_out = <<>>

\* a task or coroutine completes with a device
Complete(t, r, found) ==
    /\ tasks' = [tasks EXCEPT ![t] = [@ EXCEPT !.st = "done", !.result = r, !.found = found]]
    /\ order' = IF t = "again" THEN order ELSE Append(order, t)

\* odrive/__init__.py:133-143: find_any_async sees a matching device
FindAny ==
    /\ tasks["app"].st = "pending"
    /\ \E r \in { find_any(connected_devices(bus), tasks["app"].serial) } :
         /\ r # NoDrive
         /\ Complete("app", r, connected_devices(bus))
    /\ UNCHANGED << pc, inp, exc, bus, jobs, race, device, err, sent, sessvars, fnvars, auxvars >>

\* legacy_dfu.py:121: discover hands _get_devices to the executor and awaits it
DiscoverSubmit(t) ==
    /\ inp.legacy
    /\ tasks[t].st = "pending" /\ tasks[t].at = "submit"
    /\ jobs' = Append(jobs, [owner |-> t, started |-> FALSE])
    /\ tasks' = [tasks EXCEPT ![t].at = "await"]
    /\ UNCHANGED << pc, inp, exc, bus, order, race, device, err, sent, sessvars, fnvars, auxvars >>

\* the executor thread (max_workers=1) takes the next work item
ExecStart ==
    /\ jobs # <<>> /\ ~jobs[1].started
    /\ jobs' = [jobs EXCEPT ![1].started = TRUE]
    /\ UNCHANGED << pc, inp, exc, bus, tasks, order, race, device, err, sent, sessvars, fnvars, auxvars >>

\* legacy_dfu.py:92-110: _get_devices returns on the executor thread; the result
\* reaches the discover call that awaits it, if it still does
ExecFinish ==
    /\ jobs # <<>> /\ jobs[1].started
    /\ jobs' = Tail(jobs)
    /\ \E t \in { jobs[1].owner } :
         tasks' = IF tasks[t].st = "pending" /\ tasks[t].at = "await"
                  THEN [tasks EXCEPT ![t] = [@ EXCEPT !.at = "check",
                                                      !.found = usb_core_find(bus),
                                                      !.devices = _get_devices(usb_core_find(bus), <<>>)]]
                  ELSE tasks
    /\ UNCHANGED << pc, inp, exc, bus, order, race, device, err, sent, sessvars, fnvars, auxvars >>

\* a wrong discover that gives up when the first enumeration shows no match
DiscoverCheck_once(t) ==
    /\ tasks[t].st = "pending" /\ tasks[t].at = "check"
    /\ \E r \in { discover_match(tasks[t].serial, tasks[t].devices) } :
         IF r # NoDrive
         THEN Complete(t, r, tasks[t].found)
         ELSE /\ tasks' = [tasks EXCEPT ![t].st = "failed"]
              /\ order' = order
    /\ UNCHANGED << pc, inp, exc, bus, jobs, race, device, err, sent, sessvars, fnvars, auxvars >>

\* legacy_dfu.py:123-128: discover returns a device of this enumeration or sleeps
DiscoverCheck(t) ==
    /\ tasks[t].st = "pending" /\ tasks[t].at = "check"
    /\ \E r \in { discover_match(tasks[t].serial, tasks[t].devices) } :
         IF r # NoDrive
         THEN Complete(t, r, tasks[t].found)
         ELSE /\ tasks' = [tasks EXCEPT ![t].at = "sleep"]
              /\ order' = order
    /\ UNCHANGED << pc, inp, exc, bus, jobs, race, device, err, sent, sessvars, fnvars, auxvars >>

\* legacy_dfu.py:128: the second is over
DiscoverWake(t) ==
    /\ tasks[t].st = "pending" /\ tasks[t].at = "sleep"
    /\ tasks' = [tasks EXCEPT ![t].at = "submit"]
    /\ UNCHANGED << pc, inp, exc, bus, jobs, order, race, device, err, sent, sessvars, fnvars, auxvars >>

\* libodrive.py:236-241: wait_for sees a matching bootloader among the known devices
WaitFor(t) ==
    /\ ~inp.legacy
    /\ tasks[t].st = "pending"
    /\ \E r \in { get_device(bus, tasks[t].serial, "True") } :
         /\ r # NoDrive
         /\ Complete(t, r, bus)
    /\ UNCHANGED << pc, inp, exc, bus, jobs, race, device, err, sent, sessvars, fnvars, auxvars >>

\* a cancelled task runs once more: CancelledError is thrown into it and ends it
TaskCancelled(t) ==
    /\ tasks[t].st = "cancelling"
    /\ tasks' = [tasks EXCEPT ![t] = [NoTask EXCEPT !.st = "cancelled"]]
    /\ UNCHANGED << pc, inp, exc, bus, jobs, order, race, device, err, sent, sessvars, fnvars, auxvars >>

\* legacy_dfu.py:306-312, dfu.py:48-50: asyncio.wait returns the sets of finished
\* and of pending tasks, and the pending ones are cancelled.  Cancelling a task that
\* awaits the executor cancels a work item that has not started; one that has
\* started runs on.
RaceWake ==
    /\ pc = "loc_wait"
    /\ \E D \in { { t \in {"app", "dfu"} : tasks[t].st = "done" } } :
         /\ D # {}
         /\ \E q \in Orderings(D) : race' = [done |-> q, pending |-> {"app", "dfu"} \ D]
         /\ tasks' = [t \in DOMAIN tasks |->
                        IF t \in {"app", "dfu"} \ D THEN [tasks[t] EXCEPT !.st = "cancelling"]
                        ELSE tasks[t]]
         /\ jobs' = SelectSeq(jobs, LAMBDA j : j.started \/ j.owner \in D)
    /\ pc' = "loc_cancel"
    /\ UNCHANGED << inp, exc, bus, order, device, err, sent, sessvars, fnvars, auxvars >>

\* legacy_dfu.py:313-319, dfu.py:51-56: every cancelled task has been awaited; the
\* session goes on with the first result of gather(*done)
RacePick ==
    /\ pc = "loc_cancel"
    /\ \A t \in race.pending : tasks[t].st = "cancelled"
    /\ device' = tasks[race.done[1]].result
    /\ pc' = IF device'.mode = "dfu" THEN "located" ELSE "loc_check"
    /\ UNCHANGED << inp, exc, bus, tasks, jobs, order, race, err, sent, sessvars, fnvars, auxvars >>

\* legacy_dfu.py:321-350, dfu.py:117-124: a device found in application mode must
\* run a firmware that can start the update, and the caller may decline
CheckFirmware ==
    /\ pc = "loc_check"
    /\ \E r \in { launch_check(inp.legacy, inp.fw, inp.force, inp.answer) } :
         /\ exc' = r.exc
         /\ err' = r.err
         /\ pc' = IF r.returns THEN "returned"
                  ELSE IF r.exc # NoExc THEN "failed" ELSE "loc_enter"
    /\ UNCHANGED << inp, bus, tasks, jobs, order, race, device, sent, sessvars, fnvars, auxvars >>

\* legacy_dfu.py:131-164, dfu.py:16-29: the device is told to enter the bootloader
\* and, unless that failed, looked for again by its serial number
EnterBootloader ==
    /\ pc = "loc_enter"
    /\ \E raised \in { enter_dfu_mode_raises(inp.legacy, inp.has_enter_dfu_mode, inp.result) } :
         /\ exc' = raised
         /\ err' = enter_dfu_mode_error(inp.legacy, raised)
         /\ sent' = enter_dfu_mode_sends(inp.legacy, inp.fw.disable_bootloader, raised)
         /\ pc' = IF raised # NoExc THEN "failed" ELSE "loc_again"
         /\ tasks' = IF raised # NoExc THEN tasks
                     ELSE [tasks EXCEPT !["again"] =
                             [NoTask EXCEPT !.st = "pending",
                                            !.at = IF inp.legacy THEN "submit" ELSE "scan",
                                            !.serial = Format08X(device.serial_number)]]
    /\ UNCHANGED << inp, bus, jobs, order, race, device, sessvars, fnvars, auxvars >>

\* legacy_dfu.py:166-168, dfu.py:29-31: the device has been found again
Rediscovered ==
    /\ pc = "loc_again"
    /\ tasks["again"].st = "done"
    /\ device' = tasks["again"].result
    /\ pc' = "located"
    /\ UNCHANGED << inp, exc, bus, tasks, jobs, order, race, err, sent, sessvars, fnvars, auxvars >>

\* the device that was told to enter the bootloader reboots and enumerates again
Reboot ==
    /\ pc = "loc_again"
    /\ \E k \in 1..Len(bus) :
         /\ bus[k] = device
         /\ bus' = Append(Remove(bus, k), [device EXCEPT !.mode = "dfu"])
    /\ UNCHANGED << pc, inp, exc, tasks, jobs, order, race, device, err, sent, sessvars, fnvars, auxvars >>

\* a device is unplugged while the host is waiting
Unplug ==
    /\ pc \in {"loc_wait", "loc_cancel", "loc_again"}
    /\ \E k \in 1..Len(bus) : bus' = Remove(bus, k)
    /\ UNCHANGED << pc, inp, exc, tasks, jobs, order, race, device, err, sent, sessvars, fnvars, auxvars >>

NextLocate ==
    \/ FindAny
    \/ \E t \in {"dfu", "again"} : DiscoverSubmit(t)
    \/ ExecStart
    \/ ExecFinish
    \/ \E t \in {"dfu", "again"} : DiscoverCheck(t)
    \/ \E t \in {"dfu", "again"} : DiscoverWake(t)
    \/ \E t \in {"dfu", "again"} : WaitFor(t)
    \/ \E t \in {"app", "dfu"} : TaskCancelled(t)
    \/ RaceWake
    \/ RacePick
    \/ CheckFirmware
    \/ EnterBootloader
    \/ Rediscovered
    \/ Reboot
    \/ Unplug

SpecLocate == InitLocate /\ [][NextLocate]_vars

\* The event loop runs every callback that is ready, the timer of sleep(1)
\* expires, and the executor thread takes and finishes its work items: the steps
\* of the discover call after the mode transition are not postponed for ever.
SpecRediscover ==
    /\ InitLocate
    /\ [][NextLocate]_vars
    /\ WF_vars(DiscoverSubmit("again"))
    /\ WF_vars(ExecStart)
    /\ WF_vars(ExecFinish)
    /\ WF_vars(DiscoverCheck("again"))
    /\ WF_vars(DiscoverWake("again"))


(***************************************************************************)
(* The prompt for the hardware version: ODriveInDfuMode.init with ask=True  *)
(* on a device without OTP memory.  fn_out holds the answers typed so far.  *)
(***************************************************************************)
MaxAnswers == 3

\* what int(input()) can give: -1 stands for every input that is not a number
Answers == (-1)..(Len(choices) + 1)

InitPrompt ==
    /\ pc = "prompt"
    /\ fn_in \in [verbose : BOOLEAN]
    /\ fn_out = <<>>
    /\ cancel = "none"
    /\ lib = NoLib
    /\ dev \in { NewDevice([board |-> HwV4, slow |-> sl, badCells |-> {}, state0 |-> st]) :
                   sl \in 0..MaxBusy, st \in InitStates }
    /\ self = NewODriveInDfuMode
    /\ inp = [path |-> FALSE, erase_all |-> FALSE, verbose |-> fn_in.verbose,
              found_in_dfu |-> TRUE, fw |-> 1]
    /\ log = <<>>
    /\ mark = 0
    /\ exc = NoExc
    /\ err = NoErr
    /\ touched_sectors = <<>>
    /\ erase_sectors = <<>>
    /\ i = 0
    /\ readback = <<>>
    /\ report = NoReport
    /\ plan_in = NoPlanIn
    /\ plan_out = <<>>
    /\ LocateIdle

\* utils.py:533-544, one round of the loop: an answer is typed; legacy_dfu.py:31-84
\* when it ends the loop
TypeAnswer ==
    /\ pc = "prompt"
    /\ Len(fn_out) < MaxAnswers
    /\ \E answer \in Answers :
         /\ fn_out' = Append(fn_out, answer)
         /\ IF multiple_choice_accepts(answer, Len(choices))
            THEN \E w \in { ODriveInDfuMode_init(World("init", NoFault), fn_in.verbose,
                                                 TRUE, answer) } :
                    /\ Commit(w)
                    /\ pc' = IF w.exc # NoExc THEN "failed" ELSE "identified"
            ELSE UNCHANGED << pc, self, dev, log, mark, exc, err >>
    /\ UNCHANGED << inp, touched_sectors, erase_sectors, i, readback, report, plan_in,
                    plan_out, locvars, fn_in, auxvars >>

NextPrompt == TypeAnswer

SpecPrompt == InitPrompt /\ [][NextPrompt]_vars

(***************************************************************************)
(* The memory layout in an interface name, as DfuDevice.init parses it.    *)
(* A string is a sequence of characters.  The device formats the name from *)
(* its memory map; the host splits it and reads the numbers back.          *)
(***************************************************************************)
MaxSpecs == 3

DigitChars == << "0", "1", "2", "3", "4", "5", "6", "7", "8", "9",
                "A", "B", "C", "D", "E", "F" >>

DigitValue(c) == CHOOSE v \in 0..15 : DigitChars[v + 1] = c

IsDigit(c, base) == \E v \in 0..(base - 1) : DigitChars[v + 1] = c

\* the value of a digit string in a base
RECURSIVE IntOf(_, _)
IntOf(t, base) ==
    IF t = <<>> THEN 0
    ELSE IntOf(SubSeq(t, 1, Len(t) - 1), base) * base + DigitValue(t[Len(t)])

\* int(t): the decimal digits of t; anything else is a ValueError
int_accepts(t) == Len(t) > 0 /\ \A k \in 1..Len(t) : IsDigit(t[k], 10)
int(t) == IntOf(t, 10)

\* int(t, 0): the prefix says the base; a decimal number has no leading zero
int0_accepts(t) ==
    IF Len(t) > 2 /\ t[1] = "0" /\ t[2] \in {"x", "X"}
    THEN \A k \in 3..Len(t) : IsDigit(t[k], 16)
    ELSE /\ int_accepts(t)
         /\ t[1] = "0" => \A k \in 1..Len(t) : t[k] = "0"
int0(t) ==
    IF Len(t) > 2 /\ t[1] = "0" /\ t[2] \in {"x", "X"}
    THEN IntOf(SubSeq(t, 3, Len(t)), 16)
    ELSE IntOf(t, 10)

\* str.count and str.split for a one-character separator
count(t, sep) == Cardinality({ k \in 1..Len(t) : t[k] = sep })
RECURSIVE split(_, _)
split(t, sep) ==
    IF count(t, sep) = 0 THEN << t >>
    ELSE LET k == CHOOSE j \in 1..Len(t) : t[j] = sep /\ \A h \in 1..(j - 1) : t[h] # sep
         IN  << SubSeq(t, 1, k - 1) >> \o split(SubSeq(t, k + 1, Len(t)), sep)

upper(c) == CASE c = "k" -> "K" [] c = "m" -> "M" [] OTHER -> c

RECURSIVE rstrip(_)
rstrip(t) == IF t # <<>> /\ t[Len(t)] = " " THEN rstrip(SubSeq(t, 1, Len(t) - 1)) ELSE t
RECURSIVE lstrip(_, _)
lstrip(t, c) == IF t # <<>> /\ t[1] = c THEN lstrip(Tail(t), c) ELSE t

\* DfuDevice.py:115-117: one sector-spec 'repeat*size<unit><mode>'
parse_sector_spec(sector) ==
    LET parts == split(SubSeq(sector, 1, Len(sector) - 2), "*")
    IN  IF Len(parts) # 2 \/ \E k \in 1..Len(parts) : ~int_accepts(parts[k])
        THEN [exc |-> "ValueError", spec |-> SectorSpec(0, 0, " ", " ")]
        ELSE IF upper(sector[Len(sector) - 1]) \notin {" ", "K", "M"}
        THEN [exc |-> "KeyError", spec |-> SectorSpec(0, 0, " ", " ")]
        ELSE [exc |-> NoExc,
              spec |-> SectorSpec(int(parts[1]), int(parts[2]),
                                  upper(sector[Len(sector) - 1]), sector[Len(sector)])]

\* DfuDevice.py:99-131: the memory one interface name declares
parse_interface(intf_name) ==
    IF count(intf_name, "/") # 2
    THEN [exc |-> "Exception", name |-> <<>>, sectors |-> <<>>]
    ELSE LET parts  == split(intf_name, "/")
             specs  == [k \in 1..Len(split(parts[3], ",")) |->
                           parse_sector_spec(split(parts[3], ",")[k])]
             bad    == { k \in 1..Len(specs) : specs[k].exc # NoExc }
         IN  IF ~int0_accepts(parts[2])
             THEN [exc |-> "ValueError", name |-> <<>>, sectors |-> <<>>]
             ELSE IF bad # {}
             THEN [exc |-> specs[CHOOSE k \in bad : \A h \in bad : k <= h].exc,
                   name |-> <<>>, sectors |-> <<>>]
             ELSE [exc |-> NoExc,
                   name |-> lstrip(rstrip(parts[1]), "@"),
                   sectors |-> LayoutSectors([k \in 1..Len(specs) |-> specs[k].spec],
                                             int0(parts[2]))]

\* the device's side: a number in a fixed count of decimal digits, and the name
RECURSIVE Digits(_, _)
Digits(n, width) ==
    IF width = 0 THEN <<>> ELSE Append(Digits(n \div 10, width - 1), DigitChars[(n % 10) + 1])

RECURSIVE Join(_, _)
Join(ts, sep) ==
    IF ts = <<>> THEN <<>>
    ELSE IF Len(ts) = 1 THEN ts[1]
    ELSE ts[1] \o << sep >> \o Join(Tail(ts), sep)

SectorSpecString(spec) ==
    Digits(spec.repeat, 2) \o << "*" >> \o Digits(spec.size, 3) \o << spec.unit, spec.mode >>

InterfaceName(label, baseaddr, layout) ==
    label \o << "/", "0", "x" >>
          \o [k \in 1..HexWidth |-> DigitChars[Format08X(baseaddr)[k] + 1]]
          \o << "/" >> \o Join([k \in 1..Len(layout) |-> SectorSpecString(layout[k])], ",")

\* the sector-specs, labels and base addresses of the memory maps tried
LayoutSpecs ==
    { SectorSpec(4, 16, "K", "g"), SectorSpec(1, 64, "K", "g"), SectorSpec(2, 1, "M", "g"),
      SectorSpec(1, 512, " ", "e"), SectorSpec(0, 16, "k", "g"), SectorSpec(3, 0, "K", "a") }

Layouts == UNION { [1..n -> LayoutSpecs] : n \in 1..MaxSpecs }

Labels ==
    { << "@", "I", "n", "t", "e", "r", "n", "a", "l", " ", "F", "l", "a", "s", "h", " ", " " >>,
      << "@", "O", "T", "P", " ", "M", "e", "m", "o", "r", "y", " " >>,
      << "@", "F", "l", "a", "s", "h", "/", "R", "A", "M" >> }

InitLayout ==
    /\ pc = "parse"
    /\ fn_in \in [label : Labels, baseaddr : {FlashBase, OtpBase}, layout : Layouts]
    /\ fn_out = <<>>
    /\ cancel = "none"
    /\ lib = NoLib
    /\ dev = NewDevice([board |-> HwV4, slow |-> 0, badCells |-> {}, state0 |-> "DFU_IDLE"])
    /\ self = NewODriveInDfuMode
    /\ inp = [path |-> TRUE, erase_all |-> FALSE, verbose |-> FALSE,
              found_in_dfu |-> TRUE, fw |-> 1]
    /\ log = <<>>
    /\ mark = 0
    /\ exc = NoExc
    /\ err = NoErr
    /\ touched_sectors = <<>>
    /\ erase_sectors = <<>>
    /\ i = 0
    /\ readback = <<>>
    /\ report = NoReport
    /\ plan_in = NoPlanIn
    /\ plan_out = <<>>
    /\ LocateIdle

\* DfuDevice.py:99-131, one round of the loop over the interfaces
ParseInterface ==
    /\ pc = "parse"
    /\ \E m \in { parse_interface(InterfaceName(fn_in.label, fn_in.baseaddr, fn_in.layout)) } :
         /\ fn_out' = m
         /\ exc' = m.exc
         /\ pc' = IF m.exc # NoExc THEN "failed" ELSE "parsed"
    /\ UNCHANGED << inp, self, dev, log, mark, err, touched_sectors, erase_sectors, i,
                    readback, report, plan_in, plan_out, locvars, fn_in, auxvars >>

NextLayout == ParseInterface

SpecLayout == InitLayout /\ [][NextLayout]_vars

(***************************************************************************)
(* get_flash_sections on its own: ELF files of one segment and one or two  *)
(* sections.  A section with file contents (.text) lies inside the file    *)
(* image of its segment, as its file offset follows its address; a section *)
(* without file contents (.bss) lies anywhere in the segment's memory      *)
(* image and reads as zeros.                                               *)
(***************************************************************************)
ElfMaxFileSz == 2
ElfMaxSize == 2

ElfSegments ==
    { [p_type |-> t, p_vaddr |-> v, p_paddr |-> FlashBase, p_filesz |-> f, p_memsz |-> f + g] :
        t \in {"PT_LOAD", "PT_NOTE"}, v \in {FlashBase, FlashBase + 64},
        f \in 0..ElfMaxFileSz, g \in {0, 2} }

ElfWellFormed(segment, section) ==
    section.name = ".text" =>
        section.sh_addr - segment.p_vaddr + section.sh_size <= segment.p_filesz

\* the sections of one name that a file with this segment can hold
ElfSections(segment, n) ==
    { x \in { [name |-> n, sh_addr |-> segment.p_vaddr + o, sh_size |-> z,
               data |-> [k \in 1..z |-> IF n = ".bss" THEN 0 ELSE o + k]] :
                 o \in 0..(ElfMaxFileSz + 1), z \in 0..ElfMaxSize } :
        ElfWellFormed(segment, x) }

\* a file holds one section, or a .text and a .bss section in either order
ElfFiles ==
    UNION { { [segments |-> << g >>, sections |-> ss] :
                ss \in { << x >> : x \in ElfSections(g, ".text") \cup ElfSections(g, ".bss") }
                       \cup { << x, y >> : x \in ElfSections(g, ".text"),
                                           y \in ElfSections(g, ".bss") }
                       \cup { << y, x >> : x \in ElfSections(g, ".text"),
                                           y \in ElfSections(g, ".bss") } } :
            g \in ElfSegments }

InitSections ==
    /\ pc = "elf"
    /\ fn_in \in ElfFiles
    /\ fn_out = <<>>
    /\ cancel = "none"
    /\ lib = NoLib
    /\ dev = NewDevice([board |-> HwV4, slow |-> 0, badCells |-> {}, state0 |-> "DFU_IDLE"])
    /\ self = NewODriveInDfuMode
    /\ inp = [path |-> TRUE, erase_all |-> FALSE, verbose |-> FALSE,
              found_in_dfu |-> TRUE, fw |-> 1]
    /\ log = <<>>
    /\ mark = 0
    /\ exc = NoExc
    /\ err = NoErr
    /\ touched_sectors = <<>>
    /\ erase_sectors = <<>>
    /\ i = 0
    /\ readback = <<>>
    /\ report = NoReport
    /\ plan_in = NoPlanIn
    /\ plan_out = <<>>
    /\ LocateIdle

\* legacy_dfu.py:202: sections = list(firmware.get_flash_sections())
ListSections ==
    /\ pc = "elf"
    /\ fn_out' = get_flash_sections(fn_in)
    /\ pc' = "listed"
    /\ UNCHANGED << inp, self, dev, log, mark, exc, err, touched_sectors, erase_sectors, i,
                    readback, report, plan_in, plan_out, locvars, fn_in, auxvars >>

NextSections == ListSections

SpecSections == InitSections /\ [][NextSections]_vars

(***************************************************************************)
(* The address bytes of the command blocks.  Python integers have no       *)
(* width; an address of the upper half of 0 .. 2^32-1 is held here as its   *)
(* 16-bit words, least significant first, and shifted word by word.        *)
(***************************************************************************)
RECURSIVE Pow2(_)
Pow2(k) == IF k = 0 THEN 1 ELSE 2 * Pow2(k - 1)

\* x >> k on a number held as words
wide_shr(x, k) ==
    LET y == SubSeq(x, (k \div 16) + 1, Len(x))
        b == k % 16
    IN  [j \in 1..Len(y) |->
            (y[j] \div Pow2(b))
            + (IF j < Len(y) THEN (y[j + 1] % Pow2(b)) * Pow2(16 - b) ELSE 0)]

\* x % 256 on a number held as words
wide_mod256(x) == IF x = <<>> THEN 0 ELSE x[1] % 256

\* DfuDevice.py:63-64 on a number held as words
_address_to_4bytes_wide(x) ==
    << wide_mod256(x), wide_mod256(wide_shr(x, 8)),
       wide_mod256(wide_shr(x, 16)), wide_mod256(wide_shr(x, 24)) >>

\* the 16-bit words the addresses tried are made of: the edges of the bytes and
\* the words of the flash and OTP base addresses
AddrWords == {0, 1, 255, 256, 257, 2048, 8191, 30720, 32767, 32768, 65280, 65535}

\* the addresses an integer of the model can hold
Narrow(in) == in.hi < 32768

InitAddr ==
    /\ pc = "addr"
    /\ fn_in \in [hi : AddrWords, lo : AddrWords]
    /\ fn_out = <<>>
    /\ cancel = "none"
    /\ lib = NoLib
    /\ dev = NewDevice([board |-> HwV4, slow |-> 0, badCells |-> {}, state0 |-> "DFU_IDLE"])
    /\ self = NewODriveInDfuMode
    /\ inp = [path |-> TRUE, erase_all |-> FALSE, verbose |-> FALSE,
              found_in_dfu |-> TRUE, fw |-> 1]
    /\ log = <<>>
    /\ mark = 0
    /\ exc = NoExc
    /\ err = NoErr
    /\ touched_sectors = <<>>
    /\ erase_sectors = <<>>
    /\ i = 0
    /\ readback = <<>>
    /\ report = NoReport
    /\ plan_in = NoPlanIn
    /\ plan_out = <<>>
    /\ LocateIdle

\* DfuDevice.py:205-224: _set_address(a) and _erase(a) on an open device, for
\* the addresses an integer of the model can hold; DfuDevice.py:63-64 for all
EncodeAddress ==
    /\ pc = "addr"
    /\ fn_out' = [bytes |-> _address_to_4bytes_wide(<< fn_in.lo, fn_in.hi >>),
                  narrow |-> IF Narrow(fn_in)
                             THEN _address_to_4bytes(fn_in.hi * 65536 + fn_in.lo) ELSE <<>>]
    /\ IF Narrow(fn_in)
       THEN \E w \in { _erase(_set_address(select_memory(DfuDevice_init(World("init", NoFault)),
                                                         "Internal Flash"),
                                           fn_in.hi * 65536 + fn_in.lo),
                              fn_in.hi * 65536 + fn_in.lo) } :
               Commit(w)
       ELSE UNCHANGED << self, dev, log, mark, exc, err >>
    /\ pc' = "encoded"
    /\ UNCHANGED << inp, touched_sectors, erase_sectors, i, readback, report, plan_in,
                    plan_out, locvars, fn_in, auxvars >>

NextAddr == EncodeAddress

SpecAddr == InitAddr /\ [][NextAddr]_vars

(***************************************************************************)
(* The polling loop of a state-changing operation, one round at a time, on *)
(* a device that is busy for as long as it likes: busy = 1 while it works. *)
(* The log holds the requests of the last step only.                       *)
(***************************************************************************)
MaxPolls == 3

PollOps == {"set_address", "erase", "write", "exit"}
\* DfuDevice.py:207-224, 254-257, 286-296: the busy and target sets of the loop
OpBusy(op) == IF op = "exit" THEN {"DFU_MANIFEST_SYNC"} ELSE {"DFU_DOWNLOAD_BUSY"}
OpTarget(op) == IF op = "exit" THEN {"DFU_MANIFEST"} ELSE {"DFU_DOWNLOAD_IDLE"}
\* the request that starts the operation
OpRequest(w, op) ==
    CASE op = "set_address" -> _dnload(w, 0, << CmdSetAddressPointer >> \o _address_to_4bytes(FlashBase))
      [] op = "erase" -> _dnload(w, 0, << CmdErase >> \o _address_to_4bytes(FlashBase))
      [] op = "write" -> _write(w, 0, << 1, 2 >>)
      [] op = "exit" -> _leave(w)

PollFaults == { NoFault } \cup [at : {0}, kind : FaultKinds]

InitPoll ==
    /\ pc = "op"
    /\ inp \in [op : PollOps]
    /\ dev \in { NewDevice([board |-> b, slow |-> 1, badCells |-> {},
                            state0 |-> IF inp.op = "exit" THEN "DFU_DOWNLOAD_IDLE"
                                       ELSE "DFU_IDLE"]) : b \in {HwV3(<<>>), HwV4} }
    /\ self = [NewODriveInDfuMode EXCEPT !._memory = "Internal Flash"]
    /\ log = <<>>
    /\ mark = 0
    /\ exc = NoExc
    /\ err = NoErr
    /\ touched_sectors = <<>>
    /\ erase_sectors = <<>>
    /\ i = 0
    /\ readback = <<>>
    /\ report = NoReport
    /\ plan_in = NoPlanIn
    /\ plan_out = <<>>
    /\ LocateIdle
    /\ FnIdle

\* the command block or data block of the operation is downloaded
StartOp ==
    /\ pc = "op"
    /\ \E w \in { OpRequest([World("op", NoFault) EXCEPT !.log = <<>>], inp.op) } :
         /\ self' = w.self
         /\ dev' = [w.dev EXCEPT !.n = 0]
         /\ log' = w.log
         /\ exc' = w.exc
         /\ err' = w.err
         /\ pc' = IF w.exc # NoExc THEN "failed" ELSE "polling"
    /\ UNCHANGED << inp, mark, touched_sectors, erase_sectors, i, readback, report, plan_in,
                    plan_out, locvars, fnvars, auxvars >>

\* the device completes what it was told to do
DeviceFinishes ==
    /\ pc = "polling"
    /\ dev.busy > 0
    /\ dev' = [dev EXCEPT !.busy = 0]
    /\ UNCHANGED << pc, inp, self, log, mark, exc, err, touched_sectors, erase_sectors, i,
                    readback, report, plan_in, plan_out, locvars, fnvars, auxvars >>

\* DfuDevice.py:230-235 and 171-186: one round of the loop; i counts the rounds
\* up to MaxPolls and stays there
Poll ==
    /\ pc = "polling"
    /\ \E f \in PollFaults :
         \E r \in { _expect_state_round(
                       [World("poll", f) EXCEPT !.log = <<>>,
                                                !.dev.busy = IF @ > 0 THEN 2 ELSE 0],
                       OpBusy(inp.op), OpTarget(inp.op), "error_text") } :
            /\ self' = r.world.self
            /\ dev' = [r.world.dev EXCEPT !.fault = NoFault, !.n = 0, !.elapsed = 0,
                                          !.busy = Min(@, 1)]
            /\ log' = r.world.log
            /\ exc' = r.world.exc
            /\ err' = r.world.err
            /\ pc' = IF r.again THEN "polling"
                     ELSE IF r.world.exc # NoExc THEN "failed" ELSE "returned"
    /\ i' = Min(i + 1, MaxPolls)
    /\ UNCHANGED << inp, mark, touched_sectors, erase_sectors, readback, report, plan_in,
                    plan_out, locvars, fnvars, auxvars >>

NextPoll ==
    \/ StartOp
    \/ DeviceFinishes
    \/ Poll

\* the host runs on: the request is sent, time.sleep returns and the loop goes round
SpecPoll ==
    /\ InitPoll
    /\ [][NextPoll]_vars
    /\ WF_vars(StartOp)
    /\ WF_vars(Poll)

(***************************************************************************)
(* ODriveInDfuMode.init called again and again on one device object, the   *)
(* caller having caught what an earlier call raised, and then the init     *)
(* step of write_firmware                                                  *)
(***************************************************************************)
MaxInits == 2

InitReinit ==
    /\ pc = "first"
    /\ inp \in [path : {TRUE}, erase_all : {FALSE}, verbose : BOOLEAN,
                found_in_dfu : {TRUE}, fw : {1}]
    /\ dev \in { NewDevice([board |-> b, slow |-> 0, badCells |-> {}, state0 |-> st]) :
                    b \in Boards, st \in {"DFU_IDLE", "DFU_ERROR"} }
    /\ self = NewODriveInDfuMode
    /\ log = <<>>
    /\ mark = 0
    /\ exc = NoExc
    /\ err = NoErr
    /\ touched_sectors = <<>>
    /\ erase_sectors = <<>>
    /\ i = 0
    /\ readback = <<>>
    /\ report = NoReport
    /\ plan_in = NoPlanIn
    /\ plan_out = <<>>
    /\ LocateIdle
    /\ FnIdle

\* legacy_dfu.py:31-84: a call of init; fn_out keeps how the first call ended
InitCall ==
    /\ pc \in {"first", "later"}
    /\ i < MaxInits
    /\ \E f \in Faults, ask \in BOOLEAN, answer \in 1..Len(choices) :
         \E w \in { ODriveInDfuMode_init(World("init", f), inp.verbose, ask, answer) } :
            /\ Commit(w)
            /\ fn_out' = IF pc = "first"
                         THEN << [completed |-> w.exc = NoExc, ask |-> ask] >>
                         ELSE fn_out
            /\ fn_in' = << [ask |-> ask] >>
    /\ i' = i + 1
    /\ pc' = "later"
    /\ UNCHANGED << inp, touched_sectors, erase_sectors, readback, report, plan_in,
                    plan_out, locvars, auxvars >>

\* legacy_dfu.py:183-191: write_firmware calls init and refuses the placeholder
\* hardware version
WriteFirmwareInit ==
    /\ pc = "later"
    /\ \E f \in Faults :
         \E a \in { ODriveInDfuMode_init(World("wf_init", f), inp.verbose, FALSE, 0) } :
         \E b \in { IF a.exc = NoExc /\ a.self.board = HwVersion(3, 0, 0)
                    THEN jump_to_application([a EXCEPT !.ph = "abort"], FlashBase)
                    ELSE a } :
         \E w \in { IF b.exc = NoExc /\ b.self.board = HwVersion(3, 0, 0)
                    THEN Raise(b, "DfuError", Msg("Could not determine hardware version."))
                    ELSE b } :
            /\ Commit(w)
            /\ pc' = IF w.exc # NoExc THEN "wf_failed" ELSE "wf_past_init"
    /\ UNCHANGED << inp, touched_sectors, erase_sectors, i, readback, report, plan_in,
                    plan_out, locvars, fnvars, auxvars >>

NextReinit ==
    \/ InitCall
    \/ WriteFirmwareInit

SpecReinit == InitReinit /\ [][NextReinit]_vars

(***************************************************************************)
(* libodrive.py: the worker thread and the event loop.  The worker thread  *)
(* runs _worker_thread_func, the event loop runs the _notify callbacks it  *)
(* was handed; both are taken one statement at a time.                     *)
(***************************************************************************)
MaxEvents == 3

\* the session variables of a run that has no update session
NoSession ==
    /\ inp = [path |-> TRUE, erase_all |-> FALSE, verbose |-> FALSE, found_in_dfu |-> TRUE,
              fw |-> 1]
    /\ dev = NewDevice([board |-> HwV4, slow |-> 0, badCells |-> {}, state0 |-> "DFU_IDLE"])
    /\ self = NewODriveInDfuMode
    /\ log = <<>>
    /\ mark = 0
    /\ exc = NoExc
    /\ err = NoErr
    /\ touched_sectors = <<>>
    /\ erase_sectors = <<>>
    /\ i = 0
    /\ readback = <<>>
    /\ report = NoReport
    /\ plan_in = NoPlanIn
    /\ plan_out = <<>>
    /\ LocateIdle
    /\ fn_in = <<>>
    /\ fn_out = <<>>
    /\ cancel = "none"

\* libodrive.py:148-151 and dfu.py:189: the LibODrive object once its worker
\* thread is started.  ready counts the _notify handles in the ready queue of
\* the event loop, reported the iterations that returned 1, seen what reported
\* was when libodrive_handle_callbacks was last entered
NewLibODrive ==
    [_notify_pending |-> FALSE, worker |-> "iteration", result |-> 0, ready |-> 0,
     notify |-> "idle", reported |-> 0, seen |-> 0]

\* a wrong _notify: the flag is cleared after the callbacks were handled
_notify_clear_last(l) ==
    CASE l.notify = "clear" -> [l EXCEPT !.notify = "handle"]
      [] l.notify = "handle" -> [l EXCEPT !.seen = l.reported, !.notify = "handling"]
      [] l.notify = "handling" -> [l EXCEPT !._notify_pending = FALSE, !.notify = "idle"]

\* libodrive.py:164-166, the next statement of _notify: the flag is cleared,
\* libodrive_handle_callbacks is entered, and it returns
_notify(l) ==
    CASE l.notify = "clear" -> [l EXCEPT !._notify_pending = FALSE, !.notify = "handle"]
      [] l.notify = "handle" -> [l EXCEPT !.seen = l.reported, !.notify = "handling"]
      [] l.notify = "handling" -> [l EXCEPT !.notify = "idle"]

\* libodrive.py:168-174, the next statement of the loop after libodrive_iteration
\* returned: the test, the assignment of the flag, call_soon_threadsafe
_worker_thread_func(l) ==
    CASE l.worker = "test" ->
            [l EXCEPT !.worker = IF l.result = 1 /\ ~l._notify_pending THEN "set"
                                 ELSE "iteration"]
      [] l.worker = "set" -> [l EXCEPT !._notify_pending = TRUE, !.worker = "schedule"]
      [] l.worker = "schedule" -> [l EXCEPT !.ready = @ + 1, !.worker = "iteration"]

InitNotify ==
    /\ pc = "libodrive"
    /\ NoSession
    /\ lib = NewLibODrive

\* libodrive.py:170: libodrive_iteration returns, with 1 when there is something
\* for the callbacks to handle
Iteration ==
    /\ lib.worker = "iteration"
    /\ \E result \in {0, 1} :
         /\ lib.reported + result <= MaxEvents
         /\ lib' = [lib EXCEPT !.result = result, !.reported = @ + result,
                               !.worker = "test"]
    /\ UNCHANGED << pc, inp, self, dev, log, mark, exc, err, touched_sectors, erase_sectors,
                    i, readback, report, plan_in, plan_out, locvars, fnvars, cancel >>

WorkerStep ==
    /\ lib.worker # "iteration"
    /\ lib' = _worker_thread_func(lib)
    /\ UNCHANGED << pc, inp, self, dev, log, mark, exc, err, touched_sectors, erase_sectors,
                    i, readback, report, plan_in, plan_out, locvars, fnvars, cancel >>

\* the event loop takes a handle from its ready queue and calls _notify
LoopRuns ==
    /\ lib.ready > 0
    /\ lib.notify = "idle"
    /\ lib' = [lib EXCEPT !.ready = @ - 1, !.notify = "clear"]
    /\ UNCHANGED << pc, inp, self, dev, log, mark, exc, err, touched_sectors, erase_sectors,
                    i, readback, report, plan_in, plan_out, locvars, fnvars, cancel >>

NotifyStep ==
    /\ lib.notify # "idle"
    /\ lib' = _notify(lib)
    /\ UNCHANGED << pc, inp, self, dev, log, mark, exc, err, touched_sectors, erase_sectors,
                    i, readback, report, plan_in, plan_out, locvars, fnvars, cancel >>

NextNotify ==
    \/ Iteration
    \/ WorkerStep
    \/ LoopRuns
    \/ NotifyStep

\* both threads get to run: the worker thread goes on from a returned iteration,
\* the event loop calls what is in its ready queue and _notify runs to its end
SpecNotify ==
    /\ InitNotify
    /\ [][NextNotify]_vars
    /\ WF_vars(WorkerStep)
    /\ WF_vars(LoopRuns)
    /\ WF_vars(NotifyStep)

(***************************************************************************)
(* libodrive.py: Device.connect_bootloader and the native callbacks that   *)
(* resolve its _connection_future.  An asyncio.Future is PENDING until     *)
(* set_result or set_exception finishes it; both raise InvalidStateError   *)
(* on a future that is done.                                               *)
(***************************************************************************)
MaxCallbacks == 4

NewFuture == [state |-> "PENDING", outcome |-> "none"]
done(fut) == fut.state # "PENDING"

\* libodrive.py:245-253: a Device; raised is what the last callback raised and
\* calls the callbacks the native library has made so far
NewLibDevice ==
    [hw_version |-> NoBoard, _connection_future |-> NewFuture, raised |-> NoExc,
     calls |-> <<>>]

\* libodrive.py:255-258
_on_connected(d, hw_version) ==
    IF done(d._connection_future)
    THEN [d EXCEPT !.hw_version = hw_version, !.raised = "InvalidStateError"]
    ELSE [d EXCEPT !.hw_version = hw_version, !.raised = NoExc,
                   !._connection_future = [state |-> "FINISHED", outcome |-> "None"]]

\* libodrive.py:260-264
_on_connection_failed(d, msg) ==
    IF ~done(d._connection_future)
    THEN [d EXCEPT !.raised = NoExc,
                   !._connection_future = [state |-> "FINISHED", outcome |-> msg]]
    ELSE [d EXCEPT !.raised = NoExc]

ConnectMessages == {"timeout", "unplugged"}
ConnectVersions == {HwVersion(4, 4, 58), HwVersion(5, 2, 0)}

InitConnect ==
    /\ pc = "found"
    /\ NoSession
    /\ lib = NewLibDevice

\* libodrive.py:277-279: libodrive_connect is called and the coroutine awaits
\* the future
ConnectBootloader ==
    /\ pc = "found"
    /\ pc' = "connecting"
    /\ UNCHANGED << inp, self, dev, log, mark, exc, err, touched_sectors, erase_sectors,
                    i, readback, report, plan_in, plan_out, locvars, fnvars, auxvars >>

\* the native library calls _on_connected
OnConnected ==
    /\ pc # "found"
    /\ Len(lib.calls) < MaxCallbacks
    /\ \E hw_version \in ConnectVersions :
         lib' = [_on_connected(lib, hw_version) EXCEPT !.calls = Append(@, "connected")]
    /\ UNCHANGED << pc, inp, self, dev, log, mark, exc, err, touched_sectors, erase_sectors,
                    i, readback, report, plan_in, plan_out, locvars, fnvars, cancel >>

\* the native library calls _on_connection_failed
OnConnectionFailed ==
    /\ pc # "found"
    /\ Len(lib.calls) < MaxCallbacks
    /\ \E msg \in ConnectMessages :
         lib' = [_on_connection_failed(lib, msg) EXCEPT !.calls = Append(@, "failed")]
    /\ UNCHANGED << pc, inp, self, dev, log, mark, exc, err, touched_sectors, erase_sectors,
                    i, readback, report, plan_in, plan_out, locvars, fnvars, cancel >>

\* libodrive.py:279: the awaiting coroutine goes on with the outcome of the future
ConnectResumes ==
    /\ pc = "connecting"
    /\ done(lib._connection_future)
    /\ pc' = IF lib._connection_future.outcome = "None" THEN "connected" ELSE "failed"
    /\ exc' = IF lib._connection_future.outcome = "None" THEN NoExc ELSE "Exception"
    /\ UNCHANGED << inp, self, dev, log, mark, err, touched_sectors, erase_sectors,
                    i, readback, report, plan_in, plan_out, locvars, fnvars, auxvars >>

NextConnect ==
    \/ ConnectBootloader
    \/ OnConnected
    \/ OnConnectionFailed
    \/ ConnectResumes

SpecConnect == InitConnect /\ [][NextConnect]_vars

(***************************************************************************)
(* libodrive.py: a discovery Interface, the native callbacks that report   *)
(* found and lost devices, a task in wait_for, and the exit of the         *)
(* Interface.  The tables _dev_map and _intf_map are sets of entries with  *)
(* one entry per key.  All of it runs on the event loop thread.            *)
(***************************************************************************)
MaxFound == 3

NativeHandles == {1, 2}
NoLibDevice == [handle |-> 0, serial_number |-> "", is_bootloader |-> FALSE, id |-> 0]

\* libodrive.py:212-217 and start_usb_discovery 176-184: the Interface entered.
\* present is the native library's own list of devices, created counts the
\* Device objects made, events the asyncio.Event objects made
NewInterface ==
    [devices |-> <<>>, _dev_map |-> {}, _intf_map |-> {"intf"}, _handle |-> 1,
     events |-> 1, waiter |-> [st |-> "none", serial_number |-> "", is_bootloader |-> FALSE,
                               got |-> NoLibDevice],
     present |-> {}, created |-> 0, raised |-> NoExc]

DevMapKeys(l) == { e.handle : e \in l._dev_map }
DevMapGet(l, handle) == (CHOOSE e \in l._dev_map : e.handle = handle).dev

\* libodrive.py:195-205
_on_found_device(l, native, serial_number, is_bootloader) ==
    IF "intf" \notin l._intf_map THEN [l EXCEPT !.raised = "KeyError"]
    ELSE LET py_dev == [handle |-> native, serial_number |-> serial_number,
                        is_bootloader |-> is_bootloader, id |-> l.created + 1]
         IN  [l EXCEPT !.created = @ + 1,
                       !._dev_map = { e \in @ : e.handle # native }
                                    \cup { [handle |-> native, dev |-> py_dev] },
                       !.devices = Append(@, py_dev),
                       !.waiter.st = IF @ = "waiting" THEN "woken" ELSE @,
                       !.events = @ + 1,
                       !.raised = NoExc]

\* list.remove: the first element equal to x goes
remove(seq, x) ==
    LET k == CHOOSE j \in 1..Len(seq) : seq[j] = x /\ \A m \in 1..(j - 1) : seq[m] # x
    IN  [j \in 1..(Len(seq) - 1) |-> IF j < k THEN seq[j] ELSE seq[j + 1]]

\* libodrive.py:206-210
_on_lost_device(l, native) ==
    IF "intf" \notin l._intf_map THEN [l EXCEPT !.raised = "KeyError"]
    ELSE IF native \notin DevMapKeys(l) THEN [l EXCEPT !.raised = "KeyError"]
    ELSE LET py_dev == DevMapGet(l, native)
             popped == [l EXCEPT !._dev_map = { e \in @ : e.handle # native }]
         IN  IF \A j \in 1..Len(l.devices) : l.devices[j] # py_dev
             THEN [popped EXCEPT !.raised = "ValueError"]
             ELSE [popped EXCEPT !.devices = remove(@, py_dev), !.raised = NoExc]

\* libodrive.py:222-225
Interface_exit(l) ==
    [l EXCEPT !._intf_map = @ \ {"intf"}, !._handle = 0, !.raised = NoExc]

\* libodrive.py:227-234; the serial number "" and the mode "any" stand for None
Interface_get_device(l, serial_number, is_bootloader) ==
    LET matching == SelectSeq(l.devices,
                       LAMBDA d : /\ (serial_number = "" \/ d.serial_number = serial_number)
                                  /\ (is_bootloader = "any"
                                        \/ d.is_bootloader = (is_bootloader = "yes")))
    IN  IF matching = <<>> THEN NoLibDevice ELSE Head(matching)

\* libodrive.py:236-241: wait_for from its start, or from the await it was woken at,
\* up to its return or its next await
wait_for(l) ==
    LET d == Interface_get_device(l, l.waiter.serial_number, l.waiter.is_bootloader)
    IN  IF d # NoLibDevice
        THEN [l EXCEPT !.waiter.st = "returned", !.waiter.got = d]
        ELSE [l EXCEPT !.waiter.st = "waiting"]

InitDiscovery ==
    /\ pc = "entered"
    /\ NoSession
    /\ lib = NewInterface

\* a task calls wait_for
InterfaceWaitFor ==
    /\ pc = "entered"
    /\ lib.waiter.st = "none"
    /\ \E serial_number \in {"", "A"}, is_bootloader \in {"any", "yes"} :
         lib' = wait_for([lib EXCEPT !.waiter.serial_number = serial_number,
                                     !.waiter.is_bootloader = is_bootloader])
    /\ UNCHANGED << pc, inp, self, dev, log, mark, exc, err, touched_sectors, erase_sectors,
                    i, readback, report, plan_in, plan_out, locvars, fnvars, cancel >>

\* the event loop resumes the task that the event woke
InterfaceWaitForResumes ==
    /\ lib.waiter.st = "woken"
    /\ lib' = wait_for(lib)
    /\ UNCHANGED << pc, inp, self, dev, log, mark, exc, err, touched_sectors, erase_sectors,
                    i, readback, report, plan_in, plan_out, locvars, fnvars, cancel >>

\* the native library reports a device it did not have: a handle is that of one
\* device at a time
OnFoundDevice ==
    /\ pc = "entered"
    /\ lib.created < MaxFound
    /\ \E native \in NativeHandles \ lib.present, serial_number \in {"A", "B"},
          is_bootloader \in BOOLEAN :
         lib' = [_on_found_device(lib, native, serial_number, is_bootloader)
                    EXCEPT !.present = @ \cup {native}]
    /\ UNCHANGED << pc, inp, self, dev, log, mark, exc, err, touched_sectors, erase_sectors,
                    i, readback, report, plan_in, plan_out, locvars, fnvars, cancel >>

\* the native library reports that a device it had is gone; whether it does so for
\* the devices it still has when the discovery is stopped is its own business
OnLostDevice ==
    /\ \E native \in lib.present :
         lib' = [_on_lost_device(lib, native) EXCEPT !.present = @ \ {native}]
    /\ UNCHANGED << pc, inp, self, dev, log, mark, exc, err, touched_sectors, erase_sectors,
                    i, readback, report, plan_in, plan_out, locvars, fnvars, cancel >>

\* libodrive.py:222-225: the with block of the Interface is left
ExitInterface ==
    /\ pc = "entered"
    /\ lib' = Interface_exit(lib)
    /\ pc' = "exited"
    /\ UNCHANGED << inp, self, dev, log, mark, exc, err, touched_sectors, erase_sectors,
                    i, readback, report, plan_in, plan_out, locvars, fnvars, cancel >>

NextDiscovery ==
    \/ InterfaceWaitFor
    \/ InterfaceWaitForResumes
    \/ OnFoundDevice
    \/ OnLostDevice
    \/ ExitInterface

SpecDiscovery == InitDiscovery /\ [][NextDiscovery]_vars

(***************************************************************************)
(* Properties.  The log holds every control request sent, in order, so a   *)
(* property of the order of requests is a property of the log.             *)
(***************************************************************************)
IsCommand(e, cmd) ==
    e.req = "DNLOAD" /\ e.value = 0 /\ Len(e.data) = 5 /\ e.data[1] = cmd
IsEraseCmd(e) == IsCommand(e, CmdErase)
IsSetAddress(e) == IsCommand(e, CmdSetAddressPointer)
IsLeave(e) == e.req = "DNLOAD" /\ e.value = 0 /\ Len(e.data) = 0
IsDataBlock(e) == e.req = "DNLOAD" /\ e.value >= BlockOffset
IsVerifyUpload(e) == e.req = "UPLOAD" /\ e.ph = "verify"
IsExitRequest(e) == e.ph = "exit"

\* the address a set-address or erase command carries
CommandAddress(e) ==
    e.data[2] + 256 * e.data[3] + 65536 * e.data[4] + 16777216 * e.data[5]

\* the requests of the step that was taken last
LastOp == SubSeq(log, mark + 1, Len(log))

\* every planned sector has been read back and equals its planned buffer
AllVerified ==
    /\ Len(readback) = Len(touched_sectors)
    /\ \A k \in 1..Len(touched_sectors) : readback[k] = touched_sectors[k].data

PhaseOrder ==
    /\ \A a \in 1..Len(log) : IsEraseCmd(log[a]) => \A b \in 1..a : ~IsDataBlock(log[b])
    /\ \A a \in 1..Len(log) : IsDataBlock(log[a]) => \A b \in 1..a : ~IsVerifyUpload(log[b])
    /\ \A a \in 1..Len(log) : IsVerifyUpload(log[a]) => \A b \in 1..a : ~IsExitRequest(log[b])
    /\ (\E a \in 1..Len(log) : IsExitRequest(log[a])) => AllVerified

\* C1: in write_firmware every erase command precedes the first data-block
\* download, every data-block download precedes the first verify upload, and a
\* request of the exit (jump to application) is sent only when every planned
\* sector has been read back equal to its planned buffer; an erase, write or
\* verify step that raises ends the session in failure, and a failed session
\* sends no further request.
C1_PhasesOrdered ==
    [][ /\ PhaseOrder'
        /\ (pc \in {"erase", "flash", "verify"} /\ exc' # NoExc) => pc' = "failed"
        /\ pc = "failed" => (pc' = "failed" /\ log' = log) ]_vars

\* a session that erased, wrote, verified and sent the exit requests
C1_Witness ==
    /\ pc = "done"
    /\ \E a, b, c, d \in 1..Len(log) :
         /\ IsEraseCmd(log[a]) /\ IsDataBlock(log[b])
         /\ IsVerifyUpload(log[c]) /\ IsExitRequest(log[d])

\* a session that failed while flashing, after erasing
C1_WitnessFailure ==
    /\ pc = "failed"
    /\ log # <<>>
    /\ log[Len(log)].ph = "flash"

\* C2: erase_sector called while the device reports a state other than dfuIDLE
\* and dfuDNLOAD-IDLE (dfuERROR in particular) raises DfuError carrying the
\* reported status and state, after a single GETSTATUS: no DNLOAD and no
\* CLRSTATUS is sent, and the device is left in the state it was in.
C2_EraseGate ==
    (/\ LastOp # <<>>
     /\ LastOp[1].ph = "erase"
     /\ LastOp[1].why # "gone"
     /\ LastOp[1].was \notin {"DFU_IDLE", "DFU_DOWNLOAD_IDLE"})
    => /\ LastOp[1].req = "GETSTATUS"
       /\ exc = "DfuError"
       /\ err.state = LastOp[1].was
       /\ err.status = dev.status
       /\ \A k \in 1..Len(LastOp) : LastOp[k].req \notin {"DNLOAD", "CLRSTATUS"}
       /\ dev.state = LastOp[1].was
       /\ pc = "failed"

\* erase_sector has met a device in dfuERROR
C2_Witness ==
    /\ LastOp # <<>>
    /\ LastOp[1].ph = "erase"
    /\ LastOp[1].was = "DFU_ERROR"
    /\ exc = "DfuError"
    /\ err.state = "DFU_ERROR"

\* the hardware version is not established: None, or the placeholder of an
\* invalid OTP record
Unidentified == self.board \in { NoBoard, HwVersion(3, 0, 0) }

\* C3: when the hardware identification has ended without an established
\* hardware version, no erase command and no data block is sent to the device.
C3_NoFlashingUnidentified ==
    (self._initialized /\ Unidentified)
    => \A a \in 1..Len(log) : ~IsEraseCmd(log[a]) /\ ~IsDataBlock(log[a])

\* a device without hardware version has been flashed and left to the application
C3_Witness ==
    /\ pc = "done"
    /\ self.board = NoBoard
    /\ \E a \in 1..Len(log) : IsDataBlock(log[a])

\* the addresses of the erase commands sent, in order
EraseAddresses ==
    LET cmds == SelectSeq(log, IsEraseCmd)
    IN  [k \in 1..Len(cmds) |-> CommandAddress(cmds[k])]

\* the sectors the device declares for its 'Internal Flash' region
RegionSectors ==
    LET intf == CHOOSE x \in { dev.hw.interfaces[k] : k \in 1..Len(dev.hw.interfaces) } :
                    x.name = "Internal Flash"
    IN  LayoutSectors(intf.layout, intf.baseaddr)

ExpectedErased ==
    IF inp.erase_all THEN [k \in 1..Len(RegionSectors) |-> RegionSectors[k].addr]
    ELSE [k \in 1..Len(touched_sectors) |-> touched_sectors[k].sector.addr]

IsPrefix(s, t) == Len(s) <= Len(t) /\ s = SubSeq(t, 1, Len(s))

ErasePhaseOver ==
    \/ pc \in {"flash", "verify", "jump", "done"}
    \/ \E a \in 1..Len(log) : log[a].ph \in {"flash", "verify", "exit"}

\* C4: the erase commands of a session address, one command per sector and in
\* region order, every sector of 'Internal Flash' when erase_all is set and
\* otherwise exactly the sectors of the write plan; while the erase loop runs
\* they are a prefix of that list, and no other sector is erased.
C4_ErasedSectors ==
    /\ IsPrefix(EraseAddresses, ExpectedErased)
    /\ ErasePhaseOver => EraseAddresses = ExpectedErased
    /\ \A a, b \in 1..Len(EraseAddresses) : a < b => EraseAddresses[a] < EraseAddresses[b]
    /\ \A a \in 1..Len(EraseAddresses) :
         \E k \in 1..Len(RegionSectors) : RegionSectors[k].addr = EraseAddresses[a]

\* a full erase went beyond the sectors of the plan
C4_Witness ==
    /\ pc = "done"
    /\ inp.erase_all
    /\ Len(EraseAddresses) = Len(RegionSectors)
    /\ Len(touched_sectors) < Len(RegionSectors)

\* the least offset at which two buffers of equal length differ
Differ(a, b) == { p \in 0..(Len(a) - 1) : a[p + 1] # b[p + 1] }
FirstDifference(a, b) == CHOOSE p \in Differ(a, b) : \A q \in Differ(a, b) : p <= q

\* the 16 bytes of buffer a from offset p on
Window16(a, p) == [j \in 1..16 |-> a[p + j]]

\* the sectors whose read-back was started, by the set-address commands of the
\* verify loop
VerifyAddresses ==
    LET cmds == SelectSeq(log, LAMBDA e : IsSetAddress(e) /\ e.ph = "verify")
    IN  [k \in 1..Len(cmds) |-> CommandAddress(cmds[k])]

VerifyPassed == pc \in {"jump", "done"} \/ \E a \in 1..Len(log) : IsExitRequest(log[a])

\* C5: the verify loop reads the planned sectors back from the device in plan
\* order; it passes if and only if every read-back buffer equals its planned
\* buffer; at the first sector that differs, with p the least differing offset,
\* the session fails with RuntimeError reporting the address
\* sector.addr + (p - p mod 16) and the 16 expected and observed bytes from that
\* offset on, a window that contains p.
C5_Verification ==
    /\ IsPrefix(VerifyAddresses,
                [k \in 1..Len(touched_sectors) |-> touched_sectors[k].sector.addr])
    /\ Len(readback) <= Len(VerifyAddresses)
    /\ \A k \in 1..Len(readback) :
         readback[k] = [j \in 1..touched_sectors[k].sector.len |->
                           MemRead(dev.mem, touched_sectors[k].sector.addr + j - 1)]
    /\ VerifyPassed => AllVerified
    /\ (Len(readback) = Len(touched_sectors) /\ touched_sectors # <<>> /\ AllVerified)
         => (VerifyPassed /\ report = NoReport)
    /\ exc = "RuntimeError" <=>
         \E k \in 1..Len(readback) : readback[k] # touched_sectors[k].data
    /\ \A k \in 1..Len(readback) :
         readback[k] # touched_sectors[k].data =>
            LET sector == touched_sectors[k].sector
                expected == touched_sectors[k].data
                p == FirstDifference(readback[k], expected)
                start == p - (p % 16)
            IN  /\ k = Len(readback)
                /\ pc = "failed"
                /\ report.address = sector.addr + start
                /\ report.expected = Window16(expected, start)
                /\ report.observed = Window16(readback[k], start)
                /\ report.address <= sector.addr + p
                /\ sector.addr + p < report.address + 16

\* a read-back differed from the plan at an offset that is not 16-byte aligned,
\* in the second half of the sector
C5_Witness ==
    /\ exc = "RuntimeError"
    /\ readback # <<>>
    /\ report.address = touched_sectors[Len(readback)].sector.addr + 16
    /\ FirstDifference(readback[Len(readback)], touched_sectors[Len(readback)].data) = 17

\* C6: on a fault-free device, for every sector and every buffer B of the
\* sector's length, write_sector(sector, B) leaves B in the device's memory at
\* the sector's addresses and the read_sector(sector) that follows returns
\* exactly B; neither call raises.
C6_RoundTrip ==
    LET sector == touched_sectors[1].sector
        B == touched_sectors[1].data
    IN  /\ pc # "failed"
        /\ exc = NoExc
        /\ pc \in {"rt_read", "rt_done"} =>
             \A j \in 1..sector.len : MemRead(dev.mem, sector.addr + j - 1) = B[j]
        /\ pc = "rt_done" => readback = << B >>

\* a buffer that is not uniform went out in four blocks and came back
C6_Witness ==
    /\ pc = "rt_done"
    /\ touched_sectors[1].data = << 0, 1, 1, 0 >>
    /\ Cardinality({ a \in 1..Len(log) : IsDataBlock(log[a]) }) = 4
    /\ readback = << << 0, 1, 1, 0 >> >>

\* the address set by the last set-address command before request a
AddressSetBefore(a) ==
    LET b == CHOOSE x \in 1..(a - 1) :
                 /\ IsSetAddress(log[x])
                 /\ \A y \in (x + 1)..(a - 1) : ~IsSetAddress(log[y])
    IN  CommandAddress(log[b])

\* C7: at the exit step the address pointer set before the zero-length download
\* is the entry address recorded in the firmware image (the address of its
\* .isr_vector section).
C7_JumpToEntryAddress ==
    \A a \in 1..Len(log) :
        (IsLeave(log[a]) /\ log[a].ph = "exit")
        => /\ \E x \in 1..(a - 1) : IsSetAddress(log[x])
           /\ AddressSetBefore(a) = get_reset_address(File)

\* an image whose vector table is not at the flash base was flashed, and the exit
\* set the flash base
C7_Witness ==
    /\ pc = "done"
    /\ get_reset_address(File) # FlashBase
    /\ \E a \in 1..Len(log) :
         /\ IsLeave(log[a]) /\ log[a].ph = "exit"
         /\ AddressSetBefore(a) = FlashBase

\* C8: in the exit transition of jump_to_application, from the zero-length
\* download on, a disconnection of the device at any request ends the call
\* without an exception, and a reported state other than dfuMANIFEST-SYNC and
\* dfuMANIFEST raises DfuError.
C8_ExitDisconnectIsSuccess ==
    \A a \in 1..Len(log) :
        (IsLeave(log[a]) /\ log[a].ph = "exit")
        => /\ (\E b \in a..Len(log) : log[b].why = "gone") => (exc = NoExc /\ pc = "done")
           /\ \A b \in (a + 1)..Len(log) :
                (log[b].why = "ok" /\ log[b].st \notin {"DFU_MANIFEST_SYNC", "DFU_MANIFEST"})
                => exc = "DfuError"

\* the device left the bus at the zero-length download and the session failed
C8_Witness ==
    /\ pc = "failed"
    /\ exc = "USBError"
    /\ log # <<>>
    /\ IsLeave(log[Len(log)])
    /\ log[Len(log)].ph = "exit"
    /\ log[Len(log)].why = "gone"

Intersects(sector, section) == SectorRange(sector) \cap SectionRange(section) # {}
IntersectsSome(sector, sections) ==
    \E j \in 1..Len(sections) : Intersects(sector, sections[j])
InPlan(sector, plan) == \E k \in 1..Len(plan) : plan[k].sector = sector

\* C9: for every sector list and section list, a sector is in the plan of
\* _populate_sectors if and only if its half-open address range intersects the
\* half-open address range of some section.
C9_TouchedIffIntersects ==
    pc = "planned" =>
        \A n \in 1..Len(plan_in.sectors) :
            InPlan(plan_in.sectors[n], plan_out)
            <=> IntersectsSome(plan_in.sectors[n], plan_in.sections)

\* a sector of four bytes is planned for an empty section placed inside it
C9_Witness ==
    /\ pc = "planned"
    /\ \E k \in 1..Len(plan_out) :
         /\ plan_out[k].sector.len > 0
         /\ ~IntersectsSome(plan_out[k].sector, plan_in.sections)
         /\ \A j \in 1..Len(plan_out[k].data) : plan_out[k].data[j] = EraseValue

\* the addresses of the sections that overlap the sector
Covered(sector, sections) ==
    UNION { SectionRange(sections[j]) :
              j \in { x \in 1..Len(sections) : Intersects(sector, sections[x]) } }

\* C10: in the buffer of every sector of the plan, every byte whose address is
\* outside the address ranges of the sections overlapping the sector is 0xFF.
C10_EraseValueFill ==
    pc = "planned" =>
        \A k \in 1..Len(plan_out) :
            /\ Len(plan_out[k].data) = plan_out[k].sector.len
            /\ \A j \in 1..Len(plan_out[k].data) :
                 (plan_out[k].sector.addr + j - 1) \notin Covered(plan_out[k].sector,
                                                                  plan_in.sections)
                 => plan_out[k].data[j] = 255

\* a planned sector holds section bytes and, outside the sections, erased bytes
C10_Witness ==
    /\ pc = "planned"
    /\ \E k \in 1..Len(plan_out) :
         \E j1, j2 \in 1..Len(plan_out[k].data) :
            /\ (plan_out[k].sector.addr + j1 - 1) \notin Covered(plan_out[k].sector,
                                                                 plan_in.sections)
            /\ plan_out[k].data[j1] = 255
            /\ (plan_out[k].sector.addr + j2 - 1) \in Covered(plan_out[k].sector,
                                                              plan_in.sections)
            /\ plan_out[k].data[j2] # 255

\* address a is covered by a section that follows section j in the list
CoveredLater(a, j, sections) ==
    \E x \in (j + 1)..Len(sections) : a \in SectionRange(sections[x])

C12_BufferLength ==
    pc = "planned" =>
        \A k \in 1..Len(plan_out) : Len(plan_out[k].data) = plan_out[k].sector.len

\* a sector overlapped by a section that starts before it and ends after it and
\* by a second section that starts in it
C12_Witness ==
    /\ pc = "planned"
    /\ Len(plan_in.sections) = 2
    /\ \E k \in 1..Len(plan_out) :
         LET sector == plan_out[k].sector
         IN  /\ sector.len = 1
             /\ plan_in.sections[1].addr < sector.addr
             /\ plan_in.sections[1].addr + Len(plan_in.sections[1].content)
                  > sector.addr + sector.len
             /\ plan_in.sections[2].addr = sector.addr
             /\ Len(plan_in.sections[2].content) = 2
             /\ plan_out[k].data = << 33 >>

\* the greatest number that divides both a and b
Divides(d, n) == n % d = 0
GreatestCommonDivisor(a, b) ==
    CHOOSE d \in 1..a : /\ Divides(d, a) /\ Divides(d, b)
                        /\ \A c \in 1..a : (Divides(c, a) /\ Divides(c, b)) => c <= d

\* the data blocks downloaded so far
DataBlocks == SelectSeq(log, IsDataBlock)

\* C13: the transfer size gcd(sector.len, max_transfer_size) divides the sector
\* length and does not exceed max_transfer_size (itself at most 2048);
\* write_sector downloads exactly sector.len / transfer_size data blocks, block k
\* (wValue k + 2) carrying the buffer bytes [k * transfer_size,
\* (k + 1) * transfer_size): the blocks cover the buffer, nothing left, nothing
\* twice.
C13_WholeBlocks ==
    LET sector == touched_sectors[1].sector
        B == touched_sectors[1].data
        ts == GreatestCommonDivisor(sector.len, self._max_transfer_size)
        n == sector.len \div ts
    IN  pc \in {"rt_read", "rt_done"} =>
            /\ self._max_transfer_size <= 2048
            /\ ts <= self._max_transfer_size
            /\ n * ts = sector.len
            /\ Len(DataBlocks) = n
            /\ \A k \in 0..(n - 1) :
                 /\ DataBlocks[k + 1].value = k + 2
                 /\ DataBlocks[k + 1].data = [j \in 1..ts |-> B[k * ts + j]]

\* a sector of four bytes went out in two blocks of two bytes, the transfer size
\* being neither the sector length nor the max transfer size
C13_Witness ==
    /\ pc = "rt_read"
    /\ touched_sectors[1].sector.len = 4
    /\ self._max_transfer_size = 6
    /\ touched_sectors[1].data = << 0, 1, 1, 0 >>
    /\ Len(DataBlocks) = 2
    /\ DataBlocks[1].data = << 0, 1 >>
    /\ DataBlocks[2].data = << 1, 0 >>

\* the poll intervals of at most 10000 ms reported in the first n requests, added up
RECURSIVE HonouredPolls(_)
HonouredPolls(n) ==
    IF n = 0 THEN 0
    ELSE HonouredPolls(n - 1) + (IF log[n].poll <= 10000 THEN log[n].poll ELSE 0)

\* C14: a get-status response with a poll interval above 10000 ms ends the
\* operation and the session with an exception: it is the last request sent,
\* nothing is retried, and the exit does not take it for the expected
\* disconnection.  Every interval of 10000 ms or less is slept: the time slept
\* is the sum of those intervals.
C14_PollInterval ==
    /\ \A a \in 1..Len(log) :
         log[a].poll > 10000 => (a = Len(log) /\ exc = "Exception" /\ pc = "failed")
    /\ dev.elapsed = HonouredPolls(Len(log))

\* an interval of 10000 ms was slept earlier in the session, and an interval of
\* 10001 ms during the exit, after the zero-length download, failed the session
C14_Witness ==
    /\ pc = "failed"
    /\ exc = "Exception"
    /\ log # <<>>
    /\ log[Len(log)].ph = "exit"
    /\ log[Len(log)].poll = 10001
    /\ IsLeave(log[Len(log) - 1])
    /\ \E a \in 1..Len(log) : log[a].poll = 10000
    /\ dev.elapsed > 10000

\* the poll was answered, with an acceptable poll interval
Answered(e) == e.req = "GETSTATUS" /\ e.why = "ok" /\ e.poll <= 10000

\* C15: _expect_state(busy, target) returns only after a get-status response
\* whose state is in target; every response before the last reported a state in
\* busy (and not in target); a response whose state is in neither set is the last
\* and raises DfuError with that response's status and state.  With an empty busy
\* set exactly one poll is made.
C15_ExpectState ==
    pc # "expect" =>
        /\ Len(log) >= 1
        /\ \A a \in 1..Len(log) : log[a].req = "GETSTATUS"
        /\ \A a \in 1..(Len(log) - 1) :
             Answered(log[a]) /\ log[a].st \in inp.busy_states \ inp.target_states
        /\ pc = "returned" =>
             (Answered(log[Len(log)]) /\ log[Len(log)].st \in inp.target_states)
        /\ (Answered(log[Len(log)]) /\ log[Len(log)].st \notin inp.target_states)
             => /\ log[Len(log)].st \notin inp.busy_states
                /\ exc = "DfuError"
                /\ err.state = log[Len(log)].st
                /\ err.status = dev.status
        /\ (Answered(log[Len(log)]) /\ log[Len(log)].st \in inp.target_states)
             => pc = "returned"
        /\ inp.busy_states = {} => Len(log) = 1

\* after polls that reported busy states the device reported a state that is
\* neither busy nor target, and DfuError carries it
C15_Witness ==
    /\ pc = "failed"
    /\ exc = "DfuError"
    /\ Len(log) = 3
    /\ log[1].st = "DFU_DOWNLOAD_BUSY"
    /\ log[3].st = "DFU_DOWNLOAD_IDLE"
    /\ err.state = "DFU_DOWNLOAD_IDLE"
    /\ inp.target_states = {"DFU_MANIFEST"}

\* polls that reported busy states ended with a target state, and the call returned
C15_WitnessReturn ==
    /\ pc = "returned"
    /\ Len(log) = 3
    /\ log[3].st = "DFU_DOWNLOAD_IDLE"

\* the requests before which the device changed its state by itself, which a
\* DFU-conformant device does not do
Spontaneous == { b \in 2..Len(log) : log[b].was # log[b - 1].st }

FirstSpontaneous ==
    IF Spontaneous = {} THEN Len(log) + 1
    ELSE CHOOSE b \in Spontaneous : \A c \in Spontaneous : b <= c

RaceOver == pc \notin {"loc_wait", "loc_cancel"} /\ race.done # <<>>

\* the device the session went on with after the race
RaceWinner == tasks[race.done[1]].result

\* C17: after the race the session continues with the device of the discovery
\* that completed first, and every discovery task that was pending when
\* asyncio.wait returned has been cancelled and has finished.
C17_FirstCompletedWins ==
    RaceOver =>
        /\ race.done[1] = order[1]
        /\ RaceWinner = tasks[order[1]].result
        /\ \A t \in race.pending : tasks[t].st = "cancelled"

\* both discoveries completed before asyncio.wait returned, and the session went
\* on with the device of the one that completed second
C17_Witness ==
    /\ RaceOver
    /\ Len(order) = 2
    /\ race.pending = {}
    /\ race.done[1] = order[2]
    /\ device = tasks[order[2]].result

\* the session went on with the only discovery that had completed, after the
\* other one was cancelled and had finished
C17_WitnessCancelled ==
    /\ RaceOver
    /\ Len(order) = 1
    /\ race.done = << order[1] >>
    /\ \E t \in race.pending : tasks[t].st = "cancelled"

\* C18: when the winner of the race proceeds, nothing of the abandoned discovery
\* is left: no _get_devices call it started is queued or running on the executor
\* thread, and no task of the race other than the winner holds a device handle.
C18_LoserReleased ==
    RaceOver =>
        /\ \A k \in 1..Len(jobs) : jobs[k].owner # "dfu"
        /\ \A t \in {"app", "dfu"} \ {race.done[1]} : tasks[t].result = NoDrive

\* the application-mode discovery won, the bootloader discovery was cancelled and
\* has finished, and its _get_devices call is still running on the executor thread
C18_Witness ==
    /\ pc = "loc_enter"
    /\ race.done = << "app" >>
    /\ tasks["dfu"].st = "cancelled"
    /\ \E k \in 1..Len(jobs) : jobs[k].owner = "dfu" /\ jobs[k].started

\* both discoveries completed in the same wait round, and the task of the loser
\* still holds its device
C18_WitnessBothDone ==
    /\ RaceOver
    /\ race.pending = {}
    /\ Len(race.done) = 2
    /\ tasks[race.done[2]].result # NoDrive
    /\ device = RaceWinner

\* the device can be returned by the bootloader discovery of task t
Matches(t, d) ==
    /\ d.mode = "dfu"
    /\ inp.legacy => d.readable
    /\ tasks[t].serial # NoSerial => SerialString(d) = tasks[t].serial

C19_WitnessWaitFor ==
    /\ ~inp.legacy
    /\ tasks["dfu"].st = "done"
    /\ tasks["dfu"].serial = NoSerial
    /\ Len(tasks["dfu"].found) = 2
    /\ tasks["dfu"].result = tasks["dfu"].found[2]

\* enter_dfu_mode has run on the device found in application mode
Entered ==
    /\ RaceOver
    /\ RaceWinner.mode = "app"
    /\ pc \notin {"loc_check", "loc_enter", "returned"}
    /\ pc = "failed" => sent # <<>>

\* the device has the soft-enter-bootloader command
CanEnter == inp.legacy => inp.has_enter_dfu_mode

\* C20: an 'object lost' raised by the soft-enter-bootloader command is a success:
\* the session has not failed and looks for the device again, among the
\* bootloaders only and by the serial number of the same device.  A false result
\* fails the session with DfuError, and the device is not looked for again.
C20_ObjectLostIsSuccess ==
    (Entered /\ CanEnter) =>
        /\ inp.result = "ObjectLostError" =>
             /\ exc = NoExc
             /\ pc \in {"loc_again", "located"}
             /\ tasks["again"].st \in {"pending", "done"}
             /\ tasks["again"].serial = Format08X(RaceWinner.serial_number)
             /\ Len(tasks["again"].serial) >= 8
             /\ \A k \in 1..Len(tasks["again"].found) : tasks["again"].found[k].mode = "dfu"
                                                          \/ ~inp.legacy
             /\ tasks["again"].st = "done" =>
                  /\ tasks["again"].result.mode = "dfu"
                  /\ tasks["again"].result.usb_serial = tasks["again"].serial
        /\ inp.result = "False" =>
             /\ exc = "DfuError"
             /\ pc = "failed"
             /\ tasks["again"] = NoTask
             /\ \A k \in 1..Len(jobs) : jobs[k].owner # "again"

\* the command raised 'object lost', and the device was found again as a
\* bootloader with the same serial number
C20_Witness ==
    /\ inp.result = "ObjectLostError"
    /\ pc = "located"
    /\ RaceOver
    /\ RaceWinner = Drive(26, <<0, 0, 0, 0, 0, 0, 1, 10>>, "app", TRUE)
    /\ device = Drive(26, <<0, 0, 0, 0, 0, 0, 1, 10>>, "dfu", TRUE)
    /\ tasks["again"].result = device

\* the command returned a false result, and the session failed with DfuError
C20_WitnessFalse ==
    /\ inp.result = "False"
    /\ Entered
    /\ pc = "failed"
    /\ exc = "DfuError"

\* the firmware of the device cannot start an update from application mode
\* (legacy_dfu.py:333), or the device has no enter_dfu_mode command
NoSoftEnter ==
    \/ inp.fw.hw_version_major = 0
    \/ inp.fw.fw_version = <<0, 0, 0>>
    \/ inp.fw.hw_version_major = 4 /\ inp.fw.fw_version \in { <<0, 6, 5>>, <<0, 6, 6>> }
    \/ ~inp.has_enter_dfu_mode

\* the legacy session went on with a device in application mode and is past
\* entering the bootloader
PastEnter ==
    /\ RaceOver
    /\ RaceWinner.mode = "app"
    /\ inp.legacy
    /\ pc \notin {"loc_check", "loc_enter", "returned"}

\* C21: when the device in application mode does not support the
\* soft-enter-bootloader command, the session fails with a guided error that
\* names the DFU switch; no command has been sent to the device, the device is not
\* looked for again, and it has not become a bootloader.
C21_UnsupportedSoftEnter ==
    (PastEnter /\ NoSoftEnter) =>
        /\ pc = "failed"
        /\ exc \in {"Exception", "DfuError"}
        /\ err \in {GuidedSwitchError, GuidedRunModeError}
        /\ sent = <<>>
        /\ tasks["again"] = NoTask
        /\ \A k \in 1..Len(jobs) : jobs[k].owner # "again"
        /\ \A k \in 1..Len(bus) :
             bus[k].serial_number = RaceWinner.serial_number => bus[k].mode = "app"

\* a device whose firmware passes the test of launch_dfu but has no
\* enter_dfu_mode command: the session failed with the guided Exception
C21_Witness ==
    /\ PastEnter
    /\ ~inp.has_enter_dfu_mode
    /\ inp.fw.disable_bootloader
    /\ exc = "Exception"
    /\ err = GuidedSwitchError
    /\ \E k \in 1..Len(bus) : bus[k] = RaceWinner

\* a device of hardware version 4 with firmware 0.6.5: the session failed with
\* the guided DfuError of launch_dfu
C21_WitnessRunMode ==
    /\ PastEnter
    /\ inp.fw.fw_version = <<0, 6, 5>>
    /\ exc = "DfuError"
    /\ err = GuidedRunModeError

\* the answers after which the prompt was repeated
Rejected ==
    { fn_out[a] : a \in 1..(IF pc = "prompt" THEN Len(fn_out) ELSE Len(fn_out) - 1) }

\* C22: at the prompt for the hardware version every answer k in 1..n selects the
\* k-th variant as the hardware version of the device, and only answers outside
\* 1..n are rejected.
C22_EveryVariantSelectable ==
    /\ \A k \in Rejected : k \notin 1..Len(choices)
    /\ pc = "identified" =>
         /\ fn_out[Len(fn_out)] \in 1..Len(choices)
         /\ self.board = choices[fn_out[Len(fn_out)]]

\* the number of the last variant was typed, and the prompt is repeated
C22_Witness ==
    /\ pc = "prompt"
    /\ fn_out = << Len(choices) >>
    /\ self.board # choices[Len(choices)]

\* the number of the third variant was typed after a rejected answer, and the
\* device has that hardware version
C22_WitnessSelected ==
    /\ pc = "identified"
    /\ fn_out = << 0, 3 >>
    /\ self.board = HwVersion(6, 1, 0)

\* the byte at an offset of the OTP region of the device
OtpByte(k) == MemRead(dev.mem, OtpBase + k)

\* where the OTP record with the magic byte starts (-1: there is none)
OtpRecordAt ==
    IF OtpByte(0) = 254 THEN 0
    ELSE IF OtpByte(0) = 0 /\ OtpByte(16) = 254 THEN 16
    ELSE -1

\* write_firmware is past its test of the hardware version
PastIdentification == pc \in {"wf_plan", "erase", "flash", "verify", "jump", "done"}

\* C23: on a device with OTP memory whose hardware version has been read, the
\* version is the triplet at offsets 3, 4, 5 of the record when the magic byte
\* 0xFE starts the record (at offset 0, or at offset 16 when byte 0 is 0); in
\* every other case the version is the placeholder of an unidentified device,
\* nothing is erased or written, write_firmware does not go on, and when it
\* fails with 'Could not determine hardware version' the device was told to
\* leave DFU mode.
C23_OtpMagic ==
    (dev.hw.kind = "v3" /\ self.board # NoBoard) =>
        /\ OtpRecordAt >= 0 =>
             self.board = << OtpByte(OtpRecordAt + 3), OtpByte(OtpRecordAt + 4),
                             OtpByte(OtpRecordAt + 5) >>
        /\ OtpRecordAt < 0 =>
             /\ self.board = << 3, 0, 0 >>
             /\ ~PastIdentification
             /\ \A a \in 1..Len(log) : ~IsEraseCmd(log[a]) /\ ~IsDataBlock(log[a])
             /\ (pc = "failed" /\ err = Msg("Could not determine hardware version."))
                  => /\ exc = "DfuError"
                     /\ \E a \in 1..Len(log) : IsLeave(log[a]) /\ log[a].ph = "abort"
                                                /\ log[a].why = "ok"

\* a record without the magic byte: the session told the device to leave DFU
\* mode and failed
C23_Witness ==
    /\ dev.hw.kind = "v3"
    /\ OtpByte(0) = 0 /\ OtpByte(16) = 1
    /\ self.board = << 3, 0, 0 >>
    /\ pc = "failed"
    /\ err = Msg("Could not determine hardware version.")
    /\ dev.state = "DFU_MANIFEST"

\* a record with the magic byte at offset 16: the version was read from it
C23_WitnessTrusted ==
    /\ dev.hw.kind = "v3"
    /\ OtpRecordAt = 16
    /\ self.board = << 3, 5, 56 >>
    /\ pc = "done"

\* the hardware version the firmware of the session targets: that of the file
\* given by path; a firmware looked up online (legacy_dfu.py:358-360) is the one
\* the release server lists for the board of the device
FirmwareTarget == IF inp.path THEN File.target ELSE self.board

\* the hardware version of the device is established and differs from the one
\* the firmware targets
HardwareMismatch ==
    /\ self._initialized
    /\ ~Unidentified
    /\ FirmwareTarget # self.board

\* C24: when the hardware version of the device disagrees with the one the
\* firmware image targets, no erase command and no data block is sent, and
\* write_firmware does not go past its hardware test.
C24_HardwareMismatchFails ==
    HardwareMismatch =>
        /\ \A a \in 1..Len(log) : ~IsEraseCmd(log[a]) /\ ~IsDataBlock(log[a])
        /\ ~PastIdentification

\* a v3 board identified as 3.6.24 by its OTP record was flashed with the file
\* built for 4.4.58 and left to the application
C24_Witness ==
    /\ pc = "done"
    /\ inp.path
    /\ self.board = << 3, 6, 24 >>
    /\ File.target = << 4, 4, 58 >>
    /\ \E a \in 1..Len(log) : IsDataBlock(log[a]) /\ log[a].why = "ok"

\* an erase command (page erase or mass erase) has been sent in this session
ErasingBegun ==
    \E k \in 1..Len(log) : IsEraseCmd(log[k])

\* C25: once the first erase command has been issued the session is never
\* cancelled before the exit transition: a session that has begun erasing ends
\* in a failure raised by a device operation (never CancelledError) or reaches
\* the end of the exit transition, and only there can a cancellation arrive
C25_NoCancelWhileFlashing ==
    ErasingBegun =>
        /\ pc = "cancelled" =>
               \E k \in 1..Len(log) : IsLeave(log[k]) /\ log[k].ph = "exit"
        /\ pc = "failed" => exc # "CancelledError"
        /\ cancel = "delivered" => pc = "cancelled"

\* a cancellation was requested while sectors were being written and the
\* session went on to the exit transition
C25_Witness ==
    /\ ErasingBegun
    /\ cancel = "requested"
    /\ pc = "done"
    /\ inp.found_in_dfu

\* a cancellation requested during flashing arrives after the exit transition,
\* while the session waits for the application to reappear
C25_WitnessLate ==
    /\ ErasingBegun
    /\ pc = "cancelled"

RECURSIVE SumRepeats(_)
SumRepeats(layout) ==
    IF layout = <<>> THEN 0 ELSE Head(layout).repeat + SumRepeats(Tail(layout))

\* C26: the sector list parsed from an interface name is contiguous and
\* non-overlapping: the first sector starts at the declared base address, each
\* following sector starts where the one before it ends, and there are as many
\* sectors as the repeat counts of the sector-specs add up to
C26_SectorsContiguous ==
    (pc = "parsed" /\ fn_out # <<>>) =>
        LET sectors == fn_out.sectors
        IN  /\ Len(sectors) = SumRepeats(fn_in.layout)
            /\ Len(sectors) > 0 => sectors[1].addr = fn_in.baseaddr
            /\ \A k \in 2..Len(sectors) :
                   sectors[k].addr = sectors[k - 1].addr + sectors[k - 1].len
            /\ \A j, k \in 1..Len(sectors) :
                   j < k => sectors[j].addr + sectors[j].len <= sectors[k].addr

\* the layout of the STM32F405 flash: 4 of 16K, 1 of 64K, 2 of 1M, seven sectors
C26_Witness ==
    /\ pc = "parsed"
    /\ fn_in.layout = << SectorSpec(4, 16, "K", "g"), SectorSpec(1, 64, "K", "g"),
                         SectorSpec(2, 1, "M", "g") >>
    /\ fn_in.baseaddr = FlashBase
    /\ Len(fn_out.sectors) = 7
    /\ fn_out.sectors[7].addr = FlashBase + 4 * 16384 + 65536 + 1048576
    /\ fn_out.name = << "I", "n", "t", "e", "r", "n", "a", "l", " ", "F", "l", "a", "s", "h" >>

\* a name with a third slash is refused
C26_WitnessRefused ==
    /\ pc = "failed"
    /\ fn_out # <<>>
    /\ fn_out.exc = "Exception"

\* the discover call after the mode transition, and a bootloader on the bus that
\* shows the serial number it looks for
Again == tasks["again"]
Enumerated ==
    /\ inp.legacy
    /\ Again.st # "none"
    /\ \E k \in 1..Len(bus) :
         bus[k].mode = "dfu" /\ bus[k].readable /\ bus[k].usb_serial = Again.serial

\* C27: if a bootloader with the requested serial number eventually enumerates
\* and stays enumerated, the discover call after the mode transition eventually
\* returns it; until it returns it neither fails nor ends: after an enumeration
\* without a match it sleeps, and after the sleep it enumerates again
C27_RediscoveryReturns ==
    /\ [](inp.legacy => Again.st \in {"none", "pending", "done"})
    /\ []((inp.legacy /\ Again.st = "done") =>
             /\ Again.result.mode = "dfu"
             /\ Again.result.usb_serial = Again.serial)
    /\ [][(inp.legacy /\ Again.st = "pending") =>
             /\ (Again.at = "check" /\ Again'.at # "check") =>
                    (Again'.st = "done" \/ (Again'.st = "pending" /\ Again'.at = "sleep"))
             /\ (Again.at = "sleep" /\ Again'.at # "sleep") =>
                    (Again'.st = "pending" /\ Again'.at = "submit")]_vars
    /\ (<>[]Enumerated) => <>(Again.st = "done")

\* the device was found again after it had rebooted into the bootloader
C27_Witness ==
    /\ inp.legacy
    /\ pc = "located"
    /\ Again.st = "done"
    /\ device.mode = "dfu"
    /\ \E k \in 1..Len(bus) : bus[k] = device

\* the bootloader has not enumerated yet and discover sleeps before it looks again
C27_WitnessPolling ==
    /\ inp.legacy
    /\ pc = "loc_again"
    /\ Again.st = "pending" /\ Again.at = "sleep"
    /\ ~Enumerated

\* the requests of read_sector, in order, and those of them of one kind
ReadLog == SelectSeq(log, LAMBDA e : e.ph = "verify")
ReadUploads == SelectSeq(ReadLog, LAMBDA e : e.req = "UPLOAD")
ReadAborts == { a \in 1..Len(ReadLog) : ReadLog[a].req = "ABORT" }
ReadTransferSize == gcd(touched_sectors[1].sector.len, self._max_transfer_size)

\* C28: read_sector returns exactly sector.len bytes, read by sector.len /
\* transfer_size uploads of transfer_size bytes each, in ascending block order
\* from the sector's address; one abort follows the set-address command and
\* leaves dfuDNLOAD-IDLE, another follows the last upload, and the device is in
\* dfuIDLE when read_sector returns
C28_ReadSector ==
    pc = "rt_done" =>
        LET sector == touched_sectors[1].sector
            n == sector.len \div ReadTransferSize
            first == CHOOSE a \in ReadAborts : \A b \in ReadAborts : a <= b
        IN  /\ Len(readback[1]) = sector.len
            /\ \A j \in 1..sector.len : readback[1][j] = MemRead(dev.mem, sector.addr + j - 1)
            /\ n * ReadTransferSize = sector.len
            /\ Len(ReadUploads) = n
            /\ \A k \in 1..n : /\ ReadUploads[k].value = BlockOffset + k - 1
                               /\ ReadUploads[k].size = ReadTransferSize
            /\ Cardinality(ReadAborts) = 2
            /\ first > 1
            /\ IsSetAddress(ReadLog[first - 1]) \/ ReadLog[first - 1].req = "GETSTATUS"
            /\ \E a \in 1..(first - 1) :
                   IsSetAddress(ReadLog[a]) /\ CommandAddress(ReadLog[a]) = sector.addr
            /\ ReadLog[first].was = "DFU_DOWNLOAD_IDLE" /\ ReadLog[first].st = "DFU_IDLE"
            /\ \A a \in 1..Len(ReadLog) : ReadLog[a].req = "UPLOAD" => a > first
            /\ ReadLog[Len(ReadLog)].req = "ABORT"
            /\ ReadLog[Len(ReadLog)].was = "DFU_UPLOAD_IDLE"
            /\ dev.state = "DFU_IDLE"

\* a sector of four bytes read in two uploads of two bytes
C28_Witness ==
    /\ pc = "rt_done"
    /\ touched_sectors[1].sector.len = 4
    /\ ReadTransferSize = 2
    /\ Len(ReadUploads) = 2
    /\ Len(readback[1]) = 4

\* a GETSTATE request that was answered with dfuERROR
ReportsError(e) == e.req = "GETSTATE" /\ e.why = "ok" /\ e.st = "DFU_ERROR"
\* the device was in dfuERROR when the session sent its first request
FoundInError == log # <<>> /\ log[1].was = "DFU_ERROR"
EraseCmds == { a \in 1..Len(log) : IsEraseCmd(log[a]) }

\* C29: clear_status sends CLRSTATUS exactly when GETSTATE reports dfuERROR and
\* sends nothing else after GETSTATE; the session calls it after selecting the
\* flash memory and before the first erase command, so a device found in
\* dfuERROR has been cleared and is in dfuIDLE when the first erase command is sent
C29_ClearStatus ==
    /\ \A a \in 1..Len(log) :
         /\ log[a].req = "CLRSTATUS" =>
                a > 1 /\ ReportsError(log[a - 1]) /\ log[a - 1].ph = log[a].ph
         /\ ReportsError(log[a]) =>
                a < Len(log) /\ log[a + 1].req = "CLRSTATUS"
         /\ log[a].ph = "clear" => log[a].req \in {"GETSTATE", "CLRSTATUS"}
    /\ \A e \in EraseCmds :
         /\ \E a \in 1..(e - 1) : log[a].ph = "clear" /\ log[a].req = "GETSTATE"
         /\ (FoundInError /\ \A b \in EraseCmds : e <= b) =>
                /\ \E a \in 1..(e - 1) : log[a].req = "CLRSTATUS" /\ log[a].why = "ok"
                /\ log[e - 1].st = "DFU_IDLE"

\* a board without OTP memory found in dfuERROR: the session's clear_status is
\* the first to talk to it, and the update runs to its end
C29_Witness ==
    /\ pc = "done"
    /\ FoundInError
    /\ log[1].ph = "clear"
    /\ Len(log) > 1 /\ log[2].req = "CLRSTATUS"
    /\ EraseCmds # {}

\* a device in dfuIDLE: GETSTATE and nothing else
C29_WitnessIdle ==
    /\ pc = "done"
    /\ \E a \in 1..(Len(log) - 1) :
         log[a].ph = "clear" /\ log[a].st = "DFU_IDLE" /\ log[a + 1].ph = "erase"

\* the physical range of a section, clipped to the file image of its segment
ClipLo(segment, section) ==
    Max(section.sh_addr - segment.p_vaddr + segment.p_paddr, segment.p_paddr)
ClipHi(segment, section) ==
    Min(section.sh_addr - segment.p_vaddr + segment.p_paddr + section.sh_size,
        segment.p_paddr + segment.p_filesz)
\* the bytes of the section that lie in the clipped range
ClipBytes(segment, section) ==
    LET start == section.sh_addr - segment.p_vaddr + segment.p_paddr
    IN  [k \in 1..(ClipHi(segment, section) - ClipLo(segment, section)) |->
            section.data[ClipLo(segment, section) - start + k]]
\* the (segment, section) pairs that yield a flash section, in the order of the file
Yielding(file) ==
    Flatten([a \in 1..Len(file.segments) |->
        SelectSeq([b \in 1..Len(file.sections) |-> << file.segments[a], file.sections[b] >>],
                  LAMBDA q : /\ q[1].p_type = "PT_LOAD"
                             /\ section_in_segment(q[1], q[2])
                             /\ ClipHi(q[1], q[2]) - ClipLo(q[1], q[2]) > 0)])

\* the sections of the file that are yielded, with their names and addresses
\* (holds in every state of SpecSections)
SectionsSelected ==
    pc = "listed" =>
        /\ Len(fn_out) = Len(Yielding(fn_in))
        /\ \A k \in 1..Len(fn_out) :
             /\ fn_out[k].name = Yielding(fn_in)[k][2].name
             /\ fn_out[k].addr = ClipLo(Yielding(fn_in)[k][1], Yielding(fn_in)[k][2])

\* C30: get_flash_sections yields one flash section per pair of a loadable
\* segment and a section it contains whose range, clipped to the segment's file
\* image, is not empty, and nothing for the other pairs; the bytes yielded are
\* the bytes of the clipped range
C30_FlashSections ==
    pc = "listed" =>
        /\ Len(fn_out) = Len(Yielding(fn_in))
        /\ \A k \in 1..Len(fn_out) :
             /\ fn_out[k].name = Yielding(fn_in)[k][2].name
             /\ fn_out[k].addr = ClipLo(Yielding(fn_in)[k][1], Yielding(fn_in)[k][2])
             /\ fn_out[k].content = ClipBytes(Yielding(fn_in)[k][1], Yielding(fn_in)[k][2])

\* a .bss section that begins in the last byte of the file image and ends after
\* it is yielded with both its bytes
C30_Witness ==
    /\ pc = "listed"
    /\ Len(fn_in.sections) = 1
    /\ fn_in.segments[1].p_type = "PT_LOAD"
    /\ fn_in.segments[1].p_filesz = 2 /\ fn_in.segments[1].p_memsz = 4
    /\ fn_in.sections[1].name = ".bss"
    /\ fn_in.sections[1].sh_addr = fn_in.segments[1].p_vaddr + 1
    /\ fn_in.sections[1].sh_size = 2
    /\ Len(fn_out) = 1
    /\ Len(fn_out[1].content) = 2
    /\ ClipHi(fn_in.segments[1], fn_in.sections[1])
         - ClipLo(fn_in.segments[1], fn_in.sections[1]) = 1

\* C31: the address bytes are a mod 256, (a div 2^8) mod 256, (a div 2^16) mod
\* 256 and (a div 2^24) mod 256, each in 0..255, and recombine to a; the
\* set-address and erase command blocks are the opcode followed by these four bytes
C31_AddressBytes ==
    pc = "encoded" =>
        /\ Len(fn_out.bytes) = 4
        /\ \A k \in 1..4 : fn_out.bytes[k] \in 0..255
        /\ fn_out.bytes = << fn_in.lo % 256, fn_in.lo \div 256,
                             fn_in.hi % 256, fn_in.hi \div 256 >>
        /\ fn_out.bytes[1] + 256 * fn_out.bytes[2] = fn_in.lo
        /\ fn_out.bytes[3] + 256 * fn_out.bytes[4] = fn_in.hi
        /\ Narrow(fn_in) =>
             /\ fn_out.narrow = fn_out.bytes
             /\ \E a, b \in 1..Len(log) :
                  /\ a < b
                  /\ log[a].req = "DNLOAD" /\ log[a].value = 0
                  /\ log[a].data = << CmdSetAddressPointer >> \o fn_out.bytes
                  /\ log[b].req = "DNLOAD" /\ log[b].value = 0
                  /\ log[b].data = << CmdErase >> \o fn_out.bytes
             /\ \A a \in 1..Len(log) :
                  (IsSetAddress(log[a]) \/ IsEraseCmd(log[a])) =>
                      CommandAddress(log[a]) = fn_in.hi * 65536 + fn_in.lo

\* the OTP base address 0x1fff7800 in a set-address block
C31_Witness ==
    /\ pc = "encoded"
    /\ fn_in = [hi |-> 8191, lo |-> 30720]
    /\ fn_out.narrow = << 0, 120, 255, 31 >>
    /\ \E a \in 1..Len(log) : log[a].data = << CmdSetAddressPointer, 0, 120, 255, 31 >>

\* the last address, 0xffffffff
C31_WitnessLast ==
    /\ pc = "encoded"
    /\ fn_in = [hi |-> 65535, lo |-> 65535]
    /\ fn_out.bytes = << 255, 255, 255, 255 >>

WrittenBlocks == { b \in 1..Len(log) : IsDataBlock(log[b]) }

\* C33: with and without erase_all, every sector that receives a data block
\* has been sent an erase command earlier in the session, and no erase command
\* is sent after the first data block
C33_ErasedBeforeWritten ==
    /\ \A b \in WrittenBlocks :
         /\ \E x \in 1..(b - 1) : IsSetAddress(log[x])
         /\ \E a \in 1..(b - 1) :
              /\ IsEraseCmd(log[a])
              /\ log[a].why = "ok"
              /\ CommandAddress(log[a]) = AddressSetBefore(b)
    /\ \A a \in 1..Len(log), b \in WrittenBlocks : IsEraseCmd(log[a]) => a < b

\* a plan of two sectors written after a full erase
C33_Witness ==
    /\ pc = "done"
    /\ inp.erase_all
    /\ Len(touched_sectors) = 2
    /\ Cardinality({ AddressSetBefore(b) : b \in WrittenBlocks }) = 2

\* the same without erase_all: the two sectors of the plan are the ones erased
C33_WitnessPlanned ==
    /\ pc = "done"
    /\ ~inp.erase_all
    /\ Len(touched_sectors) = 2
    /\ Len(EraseAddresses) = 2
    /\ WrittenBlocks # {}

\* the last round polled the device; the device reported a busy state of the
\* operation with an acceptable poll interval
Polled == log # <<>> /\ log[Len(log)].req = "GETSTATUS"
BusyReport ==
    /\ Polled
    /\ log[Len(log)].why = "ok"
    /\ log[Len(log)].st \in OpBusy(inp.op)
    /\ log[Len(log)].poll <= PollTimeoutLimit

\* C34: set-address, erase, data-block write and exit end once the device has
\* stopped being busy for good; a round that is told a busy state with an
\* acceptable poll interval is followed by another round, however many rounds
\* there have been, and the loop goes on after a round for no other reason
C34_PollingTerminates ==
    /\ []((pc = "polling" /\ Polled) => BusyReport)
    /\ [](BusyReport => pc = "polling")
    /\ (<>[](dev.busy = 0)) => <>(pc \in {"returned", "failed"})

\* the device is still busy after MaxPolls rounds and the loop goes on
C34_Witness ==
    /\ pc = "polling"
    /\ i = MaxPolls
    /\ BusyReport
    /\ dev.busy > 0

\* each of the four operations has come back
C34_WitnessReturned ==
    /\ pc = "returned"
    /\ inp.op = "erase"
    /\ i = 2

\* the first call of init came to its end; the first call raised
FirstCompleted == fn_out # <<>> /\ fn_out[1].completed
FirstFailed == fn_out # <<>> /\ ~fn_out[1].completed

\* C35: a call of init after the first one, with any ask, sends no request and
\* leaves the device object as it was, whether the first call completed or
\* failed; after a failed first call the hardware version stays None and
\* write_firmware goes past its init step
C35_InitIdempotent ==
    /\ [][(pc = "later" /\ pc' = "later")
          => (log' = log /\ self' = self /\ exc' = NoExc)]_vars
    /\ [](FirstFailed => (self.board = NoBoard /\ pc # "wf_failed"))

\* the first call identified a v3 board without being asked; a later call with
\* ask = True has returned
C35_Witness ==
    /\ pc = "later"
    /\ i = MaxInits
    /\ FirstCompleted
    /\ ~fn_out[1].ask
    /\ fn_in[1].ask
    /\ self.board # NoBoard
    /\ log # <<>>

\* write_firmware went on with a device object whose first init had failed
C35_WitnessFailed ==
    /\ pc = "wf_past_init"
    /\ FirstFailed
    /\ self._initialized
    /\ self.board = NoBoard

\* a _notify is pending: scheduled, or called and not yet past its first statement
NotifyPending == lib.ready + (IF lib.notify = "clear" THEN 1 ELSE 0)

\* C36: every iteration that returned 1 is followed by an entry into
\* libodrive_handle_callbacks made after it returned, and there is never more
\* than one _notify pending: as long as a reported event waits, a _notify is
\* pending, or about to handle, or the worker is on its way to schedule one
C36_NoLostNotification ==
    /\ [](NotifyPending <= 1)
    /\ [](lib.seen < lib.reported =>
            \/ NotifyPending = 1
            \/ lib.notify = "handle"
            \/ lib.worker \in {"test", "set", "schedule"})
    /\ \A n \in 1..MaxEvents : (lib.reported >= n) ~> (lib.seen >= n)

\* an event was reported while _notify was between clearing the flag and handling:
\* the worker skipped nothing and a second _notify is in the ready queue
C36_Witness ==
    /\ lib.notify = "handling"
    /\ lib.ready = 1
    /\ lib.seen < lib.reported

\* the worker found the flag set and scheduled nothing for an event
C36_WitnessSkipped ==
    /\ lib.worker = "iteration"
    /\ lib.result = 1
    /\ lib.reported = 2
    /\ lib.seen = 0
    /\ lib.ready = 1
    /\ lib.notify = "idle"

\* the connection was established; the connection attempt failed
Established == lib._connection_future.outcome = "None"
ConnectFailed == done(lib._connection_future) /\ ~Established
\* the step is a call of the named callback
Callback(cb) == Len(lib'.calls) = Len(lib.calls) + 1 /\ lib'.calls[Len(lib'.calls)] = cb

\* C37: a connection-failed callback after the connection was established, and
\* a connected callback after a connection-failed callback, leave the outcome
\* of the connection future as it is and raise nothing
C37_ResolvedOnce ==
    [][/\ (Established /\ Callback("failed"))
            => (lib'._connection_future = lib._connection_future /\ lib'.raised = NoExc)
       /\ (ConnectFailed /\ Callback("connected"))
            => (lib'._connection_future = lib._connection_future /\ lib'.raised = NoExc)]_vars

\* the outcome of a future that is done never changes
C37_OutcomeKept ==
    [][done(lib._connection_future) => lib'._connection_future = lib._connection_future]_vars

\* a connected callback after a connection-failed callback raised out of set_result
C37_Witness ==
    /\ lib.calls = << "failed", "connected" >>
    /\ ConnectFailed
    /\ lib.raised = "InvalidStateError"
    /\ lib.hw_version # NoBoard

\* a connection-failed callback after the connection was established did nothing
C37_WitnessLateFailure ==
    /\ lib.calls = << "connected", "failed" >>
    /\ Established
    /\ lib.raised = NoExc

\* the native handles of the devices in Interface.devices
DeviceHandles == { lib.devices[j].handle : j \in 1..Len(lib.devices) }

\* Interface.devices holds the devices found and not lost, one object each, and
\* each is the entry of _dev_map under its handle
DevicesTracked ==
    /\ DeviceHandles = lib.present
    /\ Len(lib.devices) = Cardinality(lib.present)
    /\ \A j \in 1..Len(lib.devices) :
         /\ lib.devices[j].handle \in DevMapKeys(lib)
         /\ DevMapGet(lib, lib.devices[j].handle) = lib.devices[j]

\* no wake-up is lost: a task waits only while no device matches, and what
\* wait_for returned is a device that was found and matches
WaiterServed ==
    /\ lib.waiter.st = "waiting"
         => Interface_get_device(lib, lib.waiter.serial_number,
                                 lib.waiter.is_bootloader) = NoLibDevice
    /\ lib.waiter.st = "returned"
         => /\ lib.waiter.got # NoLibDevice
            /\ lib.waiter.serial_number \in {"", lib.waiter.got.serial_number}
            /\ lib.waiter.is_bootloader = "yes" => lib.waiter.got.is_bootloader

\* C38: while the Interface is entered, devices is what was found and not lost,
\* each device is registered in _dev_map under its handle, and a waiting wait_for
\* is served when a matching device is found; once the Interface is exited,
\* _intf_map has no entry for it and _dev_map none for its devices
C38_InterfaceTables ==
    /\ pc = "entered" => (DevicesTracked /\ WaiterServed)
    /\ pc = "exited" => (lib._intf_map = {} /\ lib._dev_map = {})

\* what holds of the claim: everything as long as the Interface is entered, and
\* the entry of the Interface itself is gone once it is exited
C38_WhileEntered ==
    /\ pc = "entered" => (DevicesTracked /\ WaiterServed)
    /\ pc = "exited" => lib._intf_map = {}

\* the Interface was exited with a device still known: its entry stays in _dev_map,
\* and the lost-device callback that follows raises KeyError and removes nothing
C38_Witness ==
    /\ pc = "exited"
    /\ lib._dev_map # {}
    /\ lib.present = {}
    /\ lib.raised = "KeyError"

\* a waiting task was woken by a found device and wait_for returned it
C38_WitnessServed ==
    /\ pc = "entered"
    /\ lib.waiter.st = "returned"
    /\ lib.events > 1
    /\ lib.waiter.got.id = lib.created

\* the sections of the list that cover address a, by their place in the list
Covering(a, sections) == { x \in 1..Len(sections) : a \in SectionRange(sections[x]) }
Last(S) == CHOOSE x \in S : \A y \in S : y <= x

\* C39: at every address of a planned sector that sections cover, the buffer
\* holds the byte of the last section of the list that covers it: a later
\* section overwrites an earlier one where they overlap, and where one section
\* alone covers an address its byte is there whatever the other sections are
C39_LastSectionWins ==
    pc = "planned" =>
        \A k \in 1..Len(plan_out) :
            \A a \in SectorRange(plan_out[k].sector) :
                Covering(a, plan_in.sections) # {}
                => LET x == Last(Covering(a, plan_in.sections))
                   IN  plan_out[k].data[a - plan_out[k].sector.addr + 1]
                         = plan_in.sections[x].content[a - plan_in.sections[x].addr + 1]

\* two sections of three bytes, the second one byte further on, in a sector of
\* three bytes: the first byte is of the first section, the others of the second
C39_Witness ==
    /\ pc = "planned"
    /\ Len(plan_in.sections) = 2
    /\ plan_in.sectors[1].len = 3
    /\ plan_in.sections[1].addr = plan_in.sectors[1].addr
    /\ plan_in.sections[2].addr = plan_in.sectors[1].addr + 1
    /\ Len(plan_in.sections[1].content) = 3
    /\ Len(plan_in.sections[2].content) = 3
    /\ Len(plan_out) >= 1
    /\ plan_out[1].data = << 17, 33, 34 >>

\* the requests of the step being taken, and its downloads
StepLog == SubSeq(log', Len(log) + 1, Len(log'))
StepDownloads == SelectSeq(StepLog, LAMBDA e : e.req = "DNLOAD")
\* a command block: wValue 0, the command byte and the address, least byte first
CommandBlock(e, cmd, addr) ==
    e.req = "DNLOAD" /\ e.value = 0 /\ e.data = << cmd >> \o _address_to_4bytes(addr)
\* the start addresses of the sectors of the device
SectorStarts ==
    UNION { { self.memories[m].sectors[n].addr : n \in 1..Len(self.memories[m].sectors) } :
              m \in 1..Len(self.memories) }
\* the last download before request a of the log (0: none)
LastDownloadBefore(a) ==
    LET D == { b \in 1..(a - 1) : log[b].req = "DNLOAD" }
    IN  IF D = {} THEN 0 ELSE CHOOSE b \in D : \A c \in D : c <= b
UploadsBetween(b, a) == Cardinality({ c \in (b + 1)..(a - 1) : log[c].req = "UPLOAD" })

\* every upload follows a set-address command for the start of a sector, and the
\* k-th upload after it (k from 0) has block number k + 2
UploadsNumbered ==
    \A a \in 1..Len(log) :
        log[a].req = "UPLOAD" =>
            LET b == LastDownloadBefore(a)
            IN  /\ b > 0
                /\ \E addr \in SectorStarts : CommandBlock(log[b], CmdSetAddressPointer, addr)
                /\ log[a].value = UploadsBetween(b, a) + 2

\* C40: set-address, erase and leave go out as downloads with block number 0;
\* write_sector sets the address pointer to the start of its sector and then
\* downloads the k-th block (k from 0) with block number k + 2; read_sector sets
\* the address pointer to the start of its sector and then uploads the k-th
\* block with block number k + 2; nothing else is downloaded
C40_BlockNumbers ==
    /\ [](UploadsNumbered)
    /\ [][pc = "erase" =>
            \A n \in 1..Len(StepDownloads) :
                CommandBlock(StepDownloads[n], CmdErase, erase_sectors[i + 1].addr)]_vars
    /\ [][pc = "flash" =>
            \A n \in 1..Len(StepDownloads) :
                IF n = 1
                THEN CommandBlock(StepDownloads[n], CmdSetAddressPointer,
                                  touched_sectors[i + 1].sector.addr)
                ELSE StepDownloads[n].value = (n - 2) + 2]_vars
    /\ [][pc = "verify" =>
            \A n \in 1..Len(StepDownloads) :
                /\ n = 1
                /\ CommandBlock(StepDownloads[n], CmdSetAddressPointer,
                                touched_sectors[i + 1].sector.addr)]_vars
    /\ [][pc = "jump" =>
            \A n \in 1..Len(StepDownloads) :
                /\ n <= 2
                /\ StepDownloads[n].value = 0
                /\ n = 1 => CommandBlock(StepDownloads[n], CmdSetAddressPointer, FlashBase)
                /\ n = 2 => StepDownloads[n].data = <<>>]_vars

\* a sector of more than one block was written and read back: the blocks went
\* down with the numbers 2 and 3 and came up with the numbers 2 and 3
C40_Witness ==
    /\ pc = "done"
    /\ \E a \in 1..(Len(log) - 1) :
         /\ log[a].req = "DNLOAD" /\ log[a].value = 2 /\ log[a].ph = "flash"
         /\ \E b \in (a + 1)..Len(log) :
              log[b].req = "DNLOAD" /\ log[b].value = 3 /\ log[b].ph = "flash"
    /\ \E a \in 1..(Len(log) - 1) :
         /\ log[a].req = "UPLOAD" /\ log[a].value = 2 /\ log[a].ph = "verify"
         /\ log[a + 1].req = "UPLOAD" /\ log[a + 1].value = 3
    /\ \E a \in 1..Len(log) : IsEraseCmd(log[a])
    /\ IsLeave(log[Len(log) - 1]) \/ IsLeave(log[Len(log)])

=============================================================================
